---- MODULE Spec2Model ----
(***************************************************************************)
(* Model of the article enhancement pipeline (enhancement-script) and of   *)
(* the article store it publishes to (backend).                            *)
(*                                                                         *)
(* Strings are modelled as sequences of chunks.  A chunk carries a token   *)
(* (what the text is) and a length in characters, so that concatenation,   *)
(* length tests and substring(0, n) are computed, not assumed.  The empty  *)
(* sequence is the empty string; a null string is modelled by the empty    *)
(* string where the code only tests it with || (both are falsy).           *)
(***************************************************************************)
EXTENDS Integers, Sequences, FiniteSets, TLC

\* ---------------------------------------------------------------- bounds
MaxDocs == 3        \* documents seeded in the store before a batch run
MaxStoreOps == 3    \* API requests issued in the store specification
RerunDocs == 2      \* documents seeded in the store before repeated runs
MaxRuns == 2        \* batch runs over one store
MaxLate == 1        \* POSTs the client gave up on that are still in flight

\* ------------------------------------------------------ program constants
MinContentLength == 200   \* index.ts:59   content.length > 200
ExcerptLength == 200      \* index.ts:75   substring(0, 200)
SearchCount == 2          \* index.ts:40   search(article.title, 2)
TitleMax == 500           \* article.schema.ts:4   max(500)
ScrapeMax == 5000         \* google.service.ts:182 maxLength
EnhancedSuffixLen == 11   \* length of " (Enhanced)", index.ts:73
SelectorMin == 500        \* google.service.ts:163  content.length > 500
SearchCap == 10           \* google.service.ts:79   Math.min(numResults, 10)

Null == 0                 \* null / undefined reference

\* ------------------------------------------------------------------ text
\* k: kind of text, d: document the text belongs to (0: none),
\* u: page the text was extracted from or links to (NoLink: none),
\* t: title it quotes ("-": none), n: characters
Chunk(k, d, u, t, n) == [k |-> k, d |-> d, u |-> u, t |-> t, n |-> n]

RECURSIVE TextLen(_)
TextLen(s) == IF s = <<>> THEN 0 ELSE Head(s).n + TextLen(Tail(s))

\* String.prototype.substring(0, m)
RECURSIVE Substring0(_, _)
Substring0(s, m) ==
  IF s = <<>> \/ m <= 0 THEN <<>>
  ELSE IF Head(s).n <= m
       THEN <<Head(s)>> \o Substring0(Tail(s), m - Head(s).n)
       ELSE <<[Head(s) EXCEPT !.n = m]>>

\* a || b on strings: the empty string is falsy
OrElse(a, b) == IF a # <<>> THEN a ELSE b

\* ------------------------------------------------------------------ urls
\* A web link "https://<host>/<path>": host and path are sequences of
\* pieces of text, cut so that a site name occurring anywhere in the link
\* is a piece of its own (www.youtube.com is "www." "youtube.com").  The
\* empty link "" is EmptyLink.
Link(h, p) == [host |-> h, path |-> p]
EmptyLink == Link(<<>>, <<>>)
NoLink == Link(<<"-">>, <<"-">>)

EnhancedSuffix == <<Chunk("lit-enhanced", 0, NoLink, "-", EnhancedSuffixLen)>>
Ellipsis == <<Chunk("lit-ellipsis", 0, NoLink, "-", 3)>>

\* String.prototype.includes on a link: s occurs somewhere in the host or
\* in the path (a site name holds no "/" and no ":")
Includes(link, s) ==
  \/ \E j \in 1..Len(link.host) : link.host[j] = s
  \/ \E j \in 1..Len(link.path) : link.path[j] = s

\* A document source URL: the original's URL (base) plus the "#enhanced-<ms>"
\* fragment (suffix > 0).  base = 0 is a string that is not a URL.
SourceUrl(b, s) == [base |-> b, suffix |-> s]

\* ============================================================ Retriever
\* google.service.ts: the denylist test of searchWithAPI's filter
Denylist == <<"youtube.com", "facebook.com", "twitter.com", "linkedin.com",
              "beyondchats.com">>

NotDenied(item) == \A j \in 1..Len(Denylist) : ~Includes(item.link, Denylist[j])

Min(a, b) == IF a < b THEN a ELSE b

\* Array.prototype.slice(0, n)
Slice0(s, n) == SubSeq(s, 1, Min(n, Len(s)))

ToSearchResult(item) == [title |-> item.title, url |-> item.link]

\* the num parameter of the request URL (google.service.ts:77-80); what the
\* backend answers is response.data.items as it comes
RequestNum(numResults) == Min(numResults, SearchCap)

searchWithAPI_raise(numResults, resp) ==
  IF ~resp.ok THEN [threw |-> TRUE, val |-> <<>>]
  ELSE LET kept == Slice0(SelectSeq(resp.items, NotDenied), numResults)
       IN [threw |-> FALSE,
           val |-> [j \in 1..Len(kept) |-> ToSearchResult(kept[j])]]

\* searchWithAPI: resp is the backend's answer, [ok |-> BOOLEAN, items |-> Seq].
\* A failed request is caught and gives the empty list.
searchWithAPI(numResults, resp) ==
  IF ~resp.ok THEN [threw |-> FALSE, val |-> <<>>]
  ELSE LET kept == Slice0(SelectSeq(resp.items, NotDenied), numResults)
       IN [threw |-> FALSE,
           val |-> [j \in 1..Len(kept) |-> ToSearchResult(kept[j])]]

\* search: without credentials nothing is requested
search(numResults, creds, resp) ==
  IF creds THEN searchWithAPI(numResults, resp)
  ELSE [threw |-> FALSE, val |-> <<>>]

\* ============================================================ Extractor
\* A text taken from a page, by its lengths: n characters as taken, clean
\* characters once every whitespace run is one blank and the ends are
\* trimmed (google.service.ts:176-179).
Raw(n, clean) == [n |-> n, clean |-> clean]
Plain(n) == Raw(n, n)

\* The selector loop of scrapeArticleContent.  cands: the trimmed texts of
\* the content selectors that match, in selector order.
RECURSIVE SelectContent(_, _)
SelectContent(cands, content) ==
  IF cands = <<>> THEN content
  ELSE IF Head(cands).n > SelectorMin THEN Head(cands)
       ELSE SelectContent(Tail(cands), Head(cands))

RECURSIVE SumN(_)
SumN(paras) == IF paras = <<>> THEN 0 ELSE Head(paras).n + SumN(Tail(paras))

RECURSIVE SumClean(_)
SumClean(paras) ==
  IF paras = <<>> THEN 0 ELSE Head(paras).clean + SumClean(Tail(paras))

NonEmpty(t) == t.n > 0

\* google.service.ts:169-172: the trimmed paragraph texts joined with
\* "\n\n"; cleaned, the non-empty ones are one blank apart
JoinParagraphs(paras) ==
  LET filled == SelectSeq(paras, NonEmpty)
  IN Raw(IF paras = <<>> THEN 0 ELSE SumN(paras) + 2 * (Len(paras) - 1),
         IF filled = <<>> THEN 0 ELSE SumClean(filled) + Len(filled) - 1)

\* scrapeArticleContent: page is what the fetch gives,
\* [ok |-> BOOLEAN, cands |-> Seq(text), paras |-> Seq(text)], paras being
\* the trimmed texts of the <p> elements.  Returns the text, "" on any
\* error.
scrapeArticleContent(url, page) ==
  IF ~page.ok THEN [threw |-> FALSE, val |-> <<>>]
  ELSE LET sel == SelectContent(page.cands, Plain(0))
           fallback == sel.n < SelectorMin
           content == IF fallback THEN JoinParagraphs(page.paras) ELSE sel
           len == content.clean
           kind == IF fallback THEN "paragraphs" ELSE "container"
           text == IF len = 0 THEN <<>> ELSE <<Chunk(kind, 0, url, "-", len)>>
       IN [threw |-> FALSE,
           val |-> IF len > ScrapeMax
                   THEN Substring0(text, ScrapeMax) \o Ellipsis
                   ELSE text]

\* ========================================================== Synthesizer
\* The text of a response is a sequence of chunks: the code-fence marker
\* ```, the info string after an opening marker (t: the language), line
\* breaks, blanks, prose, and the serialisation of a JSON value
\* (json-object, json-scalar: a number, string, boolean or array,
\* json-null).  A response is [text, obj]; obj holds the members of the
\* JSON object in the text ("" when absent or empty).
Fence == Chunk("fence", 0, NoLink, "-", 3)
Lang(t) == Chunk("lang", 0, NoLink, t, IF t = "json" THEN 4 ELSE 10)
Newline == Chunk("nl", 0, NoLink, "-", 1)
Blank == Chunk("ws", 0, NoLink, "-", 2)

IsSpace(c) == c.k \in {"nl", "ws"}

\* String.prototype.trim
RECURSIVE TrimStart(_)
TrimStart(s) ==
  IF s # <<>> /\ IsSpace(Head(s)) THEN TrimStart(Tail(s)) ELSE s

RECURSIVE TrimEnd(_)
TrimEnd(s) ==
  IF s # <<>> /\ IsSpace(s[Len(s)]) THEN TrimEnd(SubSeq(s, 1, Len(s) - 1))
  ELSE s

Trim(s) == TrimEnd(TrimStart(s))

\* jsonStr.startsWith("```")
StartsWithFence(s) == s # <<>> /\ Head(s) = Fence

\* replace(/^```(json)?\n?/, "") on a text that starts with the marker
StripOpen(s) ==
  LET a == Tail(s)
      b == IF a # <<>> /\ Head(a) = Lang("json") THEN Tail(a) ELSE a
  IN IF b # <<>> /\ Head(b) = Newline THEN Tail(b) ELSE b

\* replace(/```$/, "")
StripClose(s) ==
  IF s # <<>> /\ s[Len(s)] = Fence THEN SubSeq(s, 1, Len(s) - 1) ELSE s

NoFields == [title |-> <<>>, content |-> <<>>, excerpt |-> <<>>,
             enhancementDetails |-> <<>>]

\* JSON.parse followed by the reads of parsed.title etc.: raises unless the
\* text is one JSON value; reading a member of null raises too; a scalar
\* or an array has none of the members.
JsonParse(s, obj) ==
  IF Len(s) = 1 /\ s[1].k = "json-object" THEN [threw |-> FALSE, val |-> obj]
  ELSE IF Len(s) = 1 /\ s[1].k = "json-scalar"
       THEN [threw |-> FALSE, val |-> NoFields]
  ELSE [threw |-> TRUE, val |-> NoFields]

\* parseEnhancedContent
parseEnhancedContent(response, original) ==
  LET trimmed == Trim(response.text)
      jsonStr == IF StartsWithFence(trimmed)
                 THEN Trim(StripClose(StripOpen(trimmed)))
                 ELSE trimmed
      parsed == JsonParse(jsonStr, response.obj)
  IN IF ~parsed.threw
     THEN [title |-> OrElse(parsed.val.title, original.title),
           content |-> OrElse(parsed.val.content, original.content),
           excerpt |-> OrElse(parsed.val.excerpt,
                              Substring0(original.content, ExcerptLength)),
           enhancementDetails |-> parsed.val.enhancementDetails]
     ELSE [title |-> original.title \o EnhancedSuffix,
           content |-> response.text,
           excerpt |-> Substring0(response.text, ExcerptLength),
           enhancementDetails |-> <<>>]

NoContent == [title |-> <<>>, content |-> <<>>, excerpt |-> <<>>,
              enhancementDetails |-> <<>>]

llmEnhanceArticle_swallow(initialized, original, competitors, backend) ==
  IF ~initialized \/ ~backend.ok THEN [tag |-> "null", val |-> NoContent]
  ELSE [tag |-> "value",
        val |-> parseEnhancedContent(backend.response, original)]

\* LLMService.enhanceArticle.  initialized: isInitialized && model;
\* backend: [ok |-> BOOLEAN, response |-> ...], what generateContent gives.
\* Result: tag "null" (not initialized), "throw" (the backend error,
\* rethrown) or "value".
llmEnhanceArticle(initialized, original, competitors, backend) ==
  IF ~initialized THEN [tag |-> "null", val |-> NoContent]
  ELSE IF ~backend.ok THEN [tag |-> "throw", val |-> NoContent]
  ELSE [tag |-> "value",
        val |-> parseEnhancedContent(backend.response, original)]

\* LLMService.initialize as called by main (index.ts:154-162)
Placeholder == "your_gemini_api_key_here"
llmInitialize(geminiKey) == geminiKey # "" /\ geminiKey # Placeholder

\* ================================================================ Store
\* createArticleSchema: the body parses when every field is well formed.
\* uuid: a positive id; Null: field absent.
FieldOk(f, body) ==
  CASE f = "title" -> TextLen(body.title) >= 1 /\ TextLen(body.title) <= TitleMax
    [] f = "content" -> TextLen(body.content) >= 1
    [] f = "author" -> body.author # ""
    [] f = "sourceUrl" -> body.sourceUrl.base # 0
    [] f = "originalArticleId" -> body.originalArticleId >= 0
    [] f = "citedReferences" ->
         \A j \in 1..Len(body.citedReferences) :
           body.citedReferences[j].url # EmptyLink
    [] OTHER -> TRUE

SchemaFields == {"title", "content", "excerpt", "author", "publishedAt",
                 "sourceUrl", "tags", "originalArticleId", "isEnhanced",
                 "citedReferences"}

SchemaAccepts(body) == \A f \in SchemaFields : FieldOk(f, body)

\* The parsed data: unknown keys (enhancementDetails) are stripped
SchemaOutput(body) ==
  [title |-> body.title, content |-> body.content, excerpt |-> body.excerpt,
   author |-> body.author, publishedAt |-> body.publishedAt,
   sourceUrl |-> body.sourceUrl, tags |-> body.tags,
   originalArticleId |-> body.originalArticleId,
   isEnhanced |-> body.isEnhanced,
   citedReferences |-> body.citedReferences]

StoreIds(st) == {st[j].id : j \in 1..Len(st)}
UrlTaken(st, url, except) ==
  \E j \in 1..Len(st) : st[j].sourceUrl = url /\ st[j].id # except

\* The constraints of the database schema (prisma/schema.prisma is not
\* among the sources).  sourceUrl is a unique column: the pipeline's
\* suffix exists "so the enriched variant does not collide with the
\* original's unique-URL constraint", and findUnique is keyed on it
\* (article.service.ts:19-21).  The parent reference is a relation to an
\* article (include: original, article.service.ts:96).
UniqueViolation(st, url, except) == UrlTaken(st, url, except)
ParentViolation(st, parent) == parent # Null /\ parent \notin StoreIds(st)

\* What ...data stores in the enhancementDetails column
Details(data) ==
  IF "enhancementDetails" \in DOMAIN data THEN data.enhancementDetails
  ELSE <<>>

InsertArticle_markParent(st, data) ==
  IF \/ UniqueViolation(st, data.sourceUrl, Null)
     \/ ParentViolation(st, data.originalArticleId)
  THEN [status |-> 400, store |-> st]
  ELSE [status |-> 201,
        store |-> Append([j \in 1..Len(st) |->
                            IF st[j].id = data.originalArticleId
                            THEN [st[j] EXCEPT !.isEnhanced = TRUE]
                            ELSE st[j]],
                         [id |-> Len(st) + 1, title |-> data.title,
                    content |-> data.content, excerpt |-> data.excerpt,
                    author |-> data.author, publishedAt |-> data.publishedAt,
                    sourceUrl |-> data.sourceUrl, tags |-> data.tags,
                    originalArticleId |-> data.originalArticleId,
                    isEnhanced |-> data.isEnhanced,
                    citedReferences |-> data.citedReferences,
                    enhancementDetails |-> <<>>])]

\* prisma.article.create: [status, store].  An insert that breaks a
\* constraint of the schema is rejected by the database (a known request
\* error), which the error handler answers with 400 (errorHandler,
\* "Database operation failed").
InsertArticle(st, data) ==
  IF \/ UniqueViolation(st, data.sourceUrl, Null)
     \/ ParentViolation(st, data.originalArticleId)
  THEN [status |-> 400, store |-> st]
  ELSE [status |-> 201,
        store |-> Append(st, [id |-> Len(st) + 1, title |-> data.title,
                    content |-> data.content, excerpt |-> data.excerpt,
                    author |-> data.author, publishedAt |-> data.publishedAt,
                    sourceUrl |-> data.sourceUrl, tags |-> data.tags,
                    originalArticleId |-> data.originalArticleId,
                    isEnhanced |-> data.isEnhanced,
                    citedReferences |-> data.citedReferences,
                    enhancementDetails |-> Details(data)])]

\* ArticleService.create: 409 when the sourceUrl exists, else the insert
ArticleServiceCreate(st, data) ==
  IF UrlTaken(st, data.sourceUrl, Null) THEN [status |-> 409, store |-> st]
  ELSE InsertArticle(st, data)

\* POST /api/articles (createArticle)
createArticle(st, body) ==
  IF ~SchemaAccepts(body) THEN [status |-> 400, store |-> st]
  ELSE ArticleServiceCreate(st, SchemaOutput(body))

\* updateArticleSchema = createArticleSchema.partial(): body.has names the
\* fields present, body.v holds their values; only those are validated.
\* A parent reference that is present is a uuid: null is rejected.
UpdateSchemaAccepts(body) ==
  \A f \in body.has :
    /\ FieldOk(f, body.v)
    /\ (f = "originalArticleId" => body.v.originalArticleId # Null)

\* the fields of data that carry a value: an undefined one is not written
Defined(data) ==
  {f \in data.has : ~(f = "originalArticleId" /\ data.v[f] = Null)}

\* prisma.article.update: rejected by the database (answered with 400) on
\* an unknown id, on a sourceUrl held by another article and on a parent
\* reference to no article
WriteArticle(st, id, data) ==
  IF \/ id \notin StoreIds(st)
     \/ /\ "sourceUrl" \in data.has
        /\ UniqueViolation(st, data.v.sourceUrl, id)
     \/ /\ "originalArticleId" \in Defined(data)
        /\ ParentViolation(st, data.v.originalArticleId)
  THEN [status |-> 400, store |-> st]
  ELSE [status |-> 200,
        store |-> [j \in 1..Len(st) |->
                    IF st[j].id # id THEN st[j]
                    ELSE [f \in DOMAIN st[j] |->
                            IF f \in Defined(data) THEN data.v[f]
                            ELSE st[j][f]]]]

\* Array.prototype.reverse
Reverse(s) == [j \in 1..Len(s) |-> s[Len(s) + 1 - j]]

IsOriginal(doc) == ~doc.isEnhanced

\* GET /api/articles?isEnhanced=false&limit=100, newest first
\* (ArticleService.findAll as called by ApiService.getOriginalArticles)
ListLimit == 100
getOriginalArticles(st) == Slice0(Reverse(SelectSeq(st, IsOriginal)), ListLimit)

\* ========================================================== environment
\* The d-th document stored by the acquisition step, or by an API client
\* that gave no excerpt (even d).  Titles have 17 characters ("Intro to
\* Chatbots"), but the third has 495, which " (Enhanced)" takes past TitleMax.
Original(d) ==
  [id |-> d,
   title |-> <<Chunk("title", d, NoLink, "-",
                     IF d = 3 THEN 495 ELSE 17)>>,
   content |-> <<Chunk("body", d, NoLink, "-", 1200)>>,
   excerpt |-> IF d % 2 = 1 THEN <<Chunk("excerpt", d, NoLink, "-", 120)>>
               ELSE <<>>,
   author |-> "author", publishedAt |-> 0,
   sourceUrl |-> SourceUrl(d, 0), tags |-> <<"chatbots">>,
   originalArticleId |-> Null, isEnhanced |-> FALSE,
   citedReferences |-> <<>>, enhancementDetails |-> <<>>]

SeededStore(n) == [d \in 1..n |-> Original(d)]

LinkA == Link(<<"a.example">>, <<"post">>)
LinkB == Link(<<"b.example">>, <<"post">>)
LinkYT == Link(<<"www.", "youtube.com">>, <<"watch">>)
Item(t, l) == [title |-> t, link |-> l]

\* the search backend: it fails, or has this ranking for the query
SearchResponses ==
  { [ok |-> FALSE, items |-> <<>>],
    [ok |-> TRUE, items |-> <<>>],
    [ok |-> TRUE, items |-> <<Item("YT", LinkYT), Item("A", LinkA)>>],
    [ok |-> TRUE, items |-> <<Item("A", LinkA), Item("B", LinkB),
                              Item("YT", LinkYT), Item("A2", LinkA)>>] }

\* what fetching a page gives
Half == MinContentLength \div 2
Pages ==
  { [ok |-> FALSE, cands |-> <<>>, paras |-> <<>>],
    [ok |-> TRUE, cands |-> <<>>, paras |-> <<Plain(Half), Plain(Half - 1)>>],
    [ok |-> TRUE, cands |-> <<Plain(120)>>,
     paras |-> <<Plain(Half), Plain(Half)>>],
    [ok |-> TRUE, cands |-> <<Plain(1200)>>, paras |-> <<>>] }

Annotation(j) ==
  [type |-> IF j % 2 = 1 THEN "addition" ELSE "modification", newText |-> j]

\* A response text: prose before it (pre), blanks around it (pad), an
\* opening marker (open: none, json, plain, other), the payload, a closing
\* marker (closed).
ResponseText(pre, pad, open, closed, payload) ==
  (IF pre THEN <<Chunk("prose", 0, NoLink, "-", 30), Newline>> ELSE <<>>)
  \o (IF pad THEN <<Blank>> ELSE <<>>)
  \o (CASE open = "none" -> <<>>
        [] open = "json" -> <<Fence, Lang("json"), Newline>>
        [] open = "plain" -> <<Fence, Newline>>
        [] open = "other" -> <<Fence, Lang("javascript"), Newline>>)
  \o payload
  \o (IF closed THEN <<Newline, Fence>> ELSE <<>>)
  \o (IF pad THEN <<Newline>> ELSE <<>>)

\* the JSON object the prompt asks for, about document d
EnhancedObject(d) ==
  [title |-> <<Chunk("llm-title", d, NoLink, "-", 30)>>,
   content |-> <<Chunk("llm-content", d, NoLink, "-", 3000)>>,
   excerpt |-> <<Chunk("llm-excerpt", d, NoLink, "-", 150)>>,
   enhancementDetails |-> [j \in 1..4 |-> Annotation(j)]]

ObjectText(d) == <<Chunk("json-object", d, NoLink, "-", 3400)>>

\* answers of the generative-text backend for document d: an error, the
\* object in a json fence, prose
LLMBackends(d) ==
  { [ok |-> FALSE, response |-> [text |-> <<>>, obj |-> NoFields]],
    [ok |-> TRUE,
     response |-> [text |-> ResponseText(FALSE, FALSE, "json", TRUE,
                                         ObjectText(d)),
                   obj |-> EnhancedObject(d)]],
    [ok |-> TRUE,
     response |-> [text |-> <<Chunk("prose", d, NoLink, "-", 900)>>,
                   obj |-> NoFields]] }

Configs ==
  [enableGoogleSearch : BOOLEAN, enableLLM : BOOLEAN,
   geminiKey : {"", Placeholder, "key"}, searchCreds : BOOLEAN]

\* ================================================================ state
VARIABLES
  cfg,               \* CONFIG and the environment variables read
  isInitialized,     \* LLMService.isInitialized
  store,             \* the articles table, in creation order
  now,               \* Date.now()
  pc,                \* main: init, health, fetch, loop, delay, summary, exit
  articles,          \* main: the backlog
  idx,               \* main: i + 1
  successCount,      \* main
  report,            \* the printed summary
  exitCode,          \* process exit status, -1 while running
  step,              \* enhanceArticle: idle, SEARCH .. PUBLISH, DONE, FAILED
  searchResults, k, competitorContent, enhancedContent, citations,
  returned,          \* what the last enhanceArticle returned
  runlog,            \* history: one entry per enhanceArticle call
  cur,               \* history: the calls made by the current enhanceArticle
  health,            \* history: what healthCheck returned: -, up, down
  fetched,           \* history: how getOriginalArticles went: no, ok, error
  createReturned,    \* history: createEnhancedArticle calls that returned
  ops,               \* store specification: API requests so far
  api,               \* the backend: requests in flight, last answer
  runs,              \* re-run specification: batch runs started so far
  input,             \* function specifications: the arguments
  output,            \* function specifications: the results, "-" before
  view               \* article detail page: route id, state, fetches

mainVars == <<pc, articles, idx, successCount, report, exitCode>>
runVars == <<step, searchResults, k, competitorContent, enhancedContent,
             citations, returned>>
histVars == <<runlog, cur, health, fetched, createReturned>>
envVars == <<cfg, isInitialized>>
vars == <<cfg, isInitialized, store, now, pc, articles, idx, successCount,
          report, exitCode, step, searchResults, k, competitorContent,
          enhancedContent, citations, returned, runlog, cur, health, fetched,
          createReturned, ops, api, runs, input, output, view>>
auxVars == <<ops, api, runs, input, output, view>>

\* search: how the Retriever call went; scrapes: what each Extractor call
\* gave; passed: the source URLs handed to the Synthesizer
\* steps: the steps carried out so far
\* resp, backend, status: the answers received from the search backend,
\* the generative-text backend and the store (NoAnswers: none received)
NoAnswers == [resp |-> [ok |-> FALSE, items |-> <<>>],
              backend |-> [ok |-> FALSE,
                           response |-> [text |-> <<>>, obj |-> NoFields]],
              status |-> 0]

NoCalls == [search |-> "-", scrapes |-> <<>>, passed |-> <<>>, steps |-> <<>>,
            got |-> NoAnswers]

\* conflict: the URL of the request was held by another article when the
\* request was handled; changed: the request changed the store
NoAnswer == [op |-> "-", phase |-> "-", status |-> 0, conflict |-> FALSE,
             changed |-> FALSE]
NoRequests == [pending |-> {}, last |-> NoAnswer]

\* no function applied
NoCall == [fn |-> "-"]

NoReport == [processed |-> -1, succeeded |-> -1, failed |-> -1]

\* ArticlePage before it is shown (part_002:15-20): no route id, nothing
\* fetched, loading.  visits, latest, latestOriginal are history: the
\* fetchArticle calls started, and how the fetches of the newest one went.
NoArticle == [id |-> Null]
NoPage == [id |-> Null, article |-> NoArticle, originalArticle |-> NoArticle,
           loading |-> TRUE, error |-> "", showComparison |-> FALSE,
           fetches |-> {}, visits |-> 0, latest |-> "-",
           latestOriginal |-> "-"]

InitRest ==
  /\ isInitialized = FALSE
  /\ now = 1
  /\ pc = "init" /\ articles = <<>> /\ idx = 0 /\ successCount = 0
  /\ report = NoReport /\ exitCode = -1
  /\ step = "idle" /\ searchResults = <<>> /\ k = 0
  /\ competitorContent = <<>> /\ enhancedContent = NoContent
  /\ citations = <<>> /\ returned = FALSE
  /\ runlog = <<>> /\ cur = NoCalls
  /\ health = "-" /\ fetched = "no" /\ createReturned = 0
  /\ ops = 0 /\ api = NoRequests /\ runs = 1
  /\ input = NoCall /\ output = NoCall
  /\ view = NoPage

Init ==
  /\ cfg \in Configs
  /\ \E n \in 0..MaxDocs : store = SeededStore(n)
  /\ InitRest

\* ========================================================= Batch Runner
article == articles[idx]

\* llm: what llmService.enhanceArticle did; backendFailed: generateContent
\* raised
\* stored: the store inserted the document this call posted
NewRun(id) == [id |-> id, llm |-> "-", backendFailed |-> FALSE,
               failedAt |-> "-", outcome |-> "-", stored |-> FALSE]

\* the history entry of the current enhanceArticle call, updated
Log(f, v) == [runlog EXCEPT ![Len(runlog)][f] = v]

\* index.ts:153-162
MainInitialize ==
  /\ pc = "init"
  /\ isInitialized' = llmInitialize(cfg.geminiKey)
  /\ pc' = "health"
  /\ UNCHANGED <<cfg, store, now, articles, idx, successCount, report,
                 exitCode, runVars, histVars, auxVars>>

AfterHealth_ignore(isApiUp) == "fetch"

\* index.ts:168-176: exit unless the API is up
AfterHealth(isApiUp) == IF isApiUp THEN "fetch" ELSE "exit"

\* index.ts:164-178, ApiService.healthCheck
HealthCheck ==
  /\ pc = "health"
  /\ \E isApiUp \in BOOLEAN :
       /\ pc' = AfterHealth(isApiUp)
       /\ exitCode' = IF pc' = "exit" THEN 1 ELSE exitCode
       /\ health' = IF isApiUp THEN "up" ELSE "down"
  /\ UNCHANGED <<envVars, store, now, articles, idx, successCount, report,
                 runVars, runlog, cur, fetched, createReturned, auxVars>>

AfterFetch_error(n) ==
  IF n = 0 THEN [pc |-> "exit", exitCode |-> 1]
  ELSE [pc |-> "loop", exitCode |-> -1]

\* index.ts:184-190: an empty backlog ends the process with status 0
AfterFetch(n) ==
  IF n = 0 THEN [pc |-> "exit", exitCode |-> 0]
  ELSE [pc |-> "loop", exitCode |-> -1]

\* index.ts:180-193; a rejected fetch rejects main (index.ts:246-249)
FetchBacklog ==
  /\ pc = "fetch"
  /\ \E ok \in BOOLEAN :
       IF ~ok
       THEN /\ pc' = "exit" /\ exitCode' = 1 /\ fetched' = "error"
            /\ UNCHANGED <<articles, idx>>
       ELSE /\ articles' = getOriginalArticles(store)
            /\ fetched' = "ok"
            /\ pc' = AfterFetch(Len(articles')).pc
            /\ exitCode' = AfterFetch(Len(articles')).exitCode
            /\ idx' = IF Len(articles') = 0 THEN idx ELSE 1
  /\ UNCHANGED <<envVars, store, now, successCount, report, runVars,
                 runlog, cur, health, createReturned, auxVars>>

Invoke_keepSources ==
  /\ pc = "loop" /\ step = "idle"
  /\ step' = "SEARCH"
  /\ searchResults' = <<>> /\ k' = 0
  /\ competitorContent' = competitorContent
  /\ enhancedContent' = NoContent /\ citations' = <<>>
  /\ returned' = FALSE
  /\ runlog' = Append(runlog, NewRun(article.id))
  /\ cur' = NoCalls
  /\ UNCHANGED <<envVars, store, now, mainVars, health, fetched,
                 createReturned, auxVars>>

\* index.ts:199, 30-35: enhanceArticle is entered for articles[i]
Invoke ==
  /\ pc = "loop" /\ step = "idle"
  /\ step' = "SEARCH"
  /\ searchResults' = <<>> /\ k' = 0 /\ competitorContent' = <<>>
  /\ enhancedContent' = NoContent /\ citations' = <<>>
  /\ returned' = FALSE
  /\ runlog' = Append(runlog, NewRun(article.id))
  /\ cur' = NoCalls
  /\ UNCHANGED <<envVars, store, now, mainVars, health, fetched,
                 createReturned, auxVars>>

Did(c, s) == [c EXCEPT !.steps = Append(@, s)]

Catch_retry(at, log) ==
  /\ step' = at
  /\ returned' = FALSE
  /\ runlog' = [log EXCEPT ![Len(log)].failedAt = at]

Catch_resume(at, log) ==
  /\ step' = IF at = "SYNTHESIZE" THEN "ASSEMBLE" ELSE "FAILED"
  /\ returned' = FALSE
  /\ runlog' = [log EXCEPT ![Len(log)].failedAt = at,
                           ![Len(log)].outcome = "FAILED"]

\* index.ts:130-133: the catch of enhanceArticle
Catch(at, log) ==
  /\ step' = "FAILED"
  /\ returned' = FALSE
  /\ runlog' = [log EXCEPT ![Len(log)].failedAt = at,
                           ![Len(log)].outcome = "FAILED"]

\* index.ts:36-46
DoSearch ==
  /\ pc = "loop" /\ step = "SEARCH"
  /\ IF cfg.enableGoogleSearch
     THEN \E resp \in SearchResponses :
            LET r == search(SearchCount, cfg.searchCreds, resp) IN
            IF r.threw
            THEN /\ Catch("SEARCH", runlog)
                 /\ cur' = Did(cur, "SEARCH")
                 /\ UNCHANGED <<searchResults, k>>
            ELSE /\ searchResults' = r.val
                 /\ k' = 1
                 /\ step' = IF Len(r.val) = 0 THEN "SYNTHESIZE" ELSE "EXTRACT"
                 /\ UNCHANGED <<returned, runlog>>
                 /\ cur' = [Did(cur, "SEARCH") EXCEPT
                              !.search =
                                IF ~cfg.searchCreds THEN "nocreds"
                                ELSE IF resp.ok THEN "ok" ELSE "error",
                              !.got.resp =
                                IF cfg.searchCreds THEN resp ELSE @]
     ELSE /\ searchResults' = <<>> /\ k' = 1
          /\ step' = "SYNTHESIZE"
          /\ UNCHANGED <<returned, runlog>>
          /\ cur' = [Did(cur, "SEARCH") EXCEPT !.search = "disabled"]
  /\ UNCHANGED <<envVars, store, now, mainVars, competitorContent,
                 enhancedContent, citations, health, fetched,
                 createReturned, auxVars>>

Keeps_atLeast(text) == TextLen(text) >= MinContentLength

\* index.ts:59: the minimum-content test
Keeps(text) == TextLen(text) > MinContentLength

\* index.ts:55-67: one iteration of the scraping loop
DoExtract ==
  /\ pc = "loop" /\ step = "EXTRACT" /\ k <= Len(searchResults)
  /\ \E page \in Pages :
       LET result == searchResults[k]
           r == scrapeArticleContent(result.url, page) IN
       IF r.threw
       THEN /\ Catch("EXTRACT", runlog)
            /\ cur' = Did(cur, "EXTRACT")
            /\ UNCHANGED <<k, competitorContent>>
       ELSE /\ competitorContent' =
                 IF Keeps(r.val)
                 THEN Append(competitorContent,
                             [title |-> result.title, content |-> r.val,
                              url |-> result.url])
                 ELSE competitorContent
            /\ k' = k + 1
            /\ step' = IF k = Len(searchResults) THEN "SYNTHESIZE"
                       ELSE "EXTRACT"
            /\ UNCHANGED <<returned, runlog>>
            /\ cur' = [Did(cur, "EXTRACT") EXCEPT !.scrapes =
                         Append(@, [ok |-> page.ok, len |-> TextLen(r.val),
                                    text |-> r.val])]
  /\ UNCHANGED <<envVars, store, now, mainVars, searchResults,
                 enhancedContent, citations, health, fetched,
                 createReturned, auxVars>>

\* index.ts:72-76: the pass-through content
PassThrough(a) ==
  [title |-> a.title \o EnhancedSuffix,
   content |-> a.content,
   excerpt |-> OrElse(a.excerpt, Substring0(a.content, ExcerptLength)),
   enhancementDetails |-> <<>>]

StepAfter_skipAssemble(s) == "PUBLISH"

\* index.ts:71-126: the step that follows in the body of enhanceArticle
StepAfter(s) == IF s = "SYNTHESIZE" THEN "ASSEMBLE" ELSE "PUBLISH"

CallsLLM_anySources(c, cc) == c.enableLLM

\* index.ts:78: whether the Synthesizer is called
CallsLLM(c, cc) == c.enableLLM /\ Len(cc) > 0

Urls(cc) == [j \in 1..Len(cc) |-> cc[j].url]

\* index.ts:71-87
DoSynthesize ==
  /\ pc = "loop" /\ step = "SYNTHESIZE"
  /\ IF CallsLLM(cfg, competitorContent)
     THEN \E backend \in LLMBackends(article.id) :
            LET original == [title |-> article.title,
                             content |-> article.content]
                r == llmEnhanceArticle(isInitialized, original,
                                       competitorContent, backend)
                failed == isInitialized /\ ~backend.ok
                calls == [Did(cur, "SYNTHESIZE") EXCEPT
                            !.passed = Urls(competitorContent),
                            !.got.backend =
                              IF isInitialized THEN backend ELSE @]
                log == [runlog EXCEPT ![Len(runlog)].llm = r.tag,
                                      ![Len(runlog)].backendFailed = failed]
            IN
            IF r.tag = "throw"
            THEN /\ Catch("SYNTHESIZE", log)
                 /\ cur' = calls
                 /\ enhancedContent' = enhancedContent
            ELSE /\ enhancedContent' = IF r.tag = "null"
                                       THEN PassThrough(article) ELSE r.val
                 /\ step' = StepAfter("SYNTHESIZE")
                 /\ returned' = returned
                 /\ runlog' = log
                 /\ cur' = calls
     ELSE /\ enhancedContent' = PassThrough(article)
          /\ step' = StepAfter("SYNTHESIZE")
          /\ returned' = returned
          /\ runlog' = Log("llm", "skipped")
          /\ cur' = Did(cur, "SYNTHESIZE")
  /\ UNCHANGED <<envVars, store, now, mainVars, searchResults, k,
                 competitorContent, citations, health, fetched,
                 createReturned, auxVars>>

citationsHtml_stamped(cits) ==
  <<Chunk("refs-open", 0, NoLink, "-", 110 + now)>>
  \o [j \in 1..Len(cits) |->
        Chunk("refs-li", 0, cits[j].url, cits[j].title, 60)]
  \o <<Chunk("refs-close", 0, NoLink, "-", 7)>>

\* index.ts:97-109: the References block
citationsHtml(cits) ==
  <<Chunk("refs-open", 0, NoLink, "-", 110)>>
  \o [j \in 1..Len(cits) |->
        Chunk("refs-li", 0, cits[j].url, cits[j].title, 60)]
  \o <<Chunk("refs-close", 0, NoLink, "-", 7)>>

\* index.ts:90-93
BuildCitations(cc) == [j \in 1..Len(cc) |-> [title |-> cc[j].title,
                                             url |-> cc[j].url]]

AppendReferences_first(content, cits) ==
  IF Len(cits) > 0 THEN citationsHtml(cits) \o content ELSE content

\* index.ts:95-111: enhancedContent.content += citationsHtml
AppendReferences(content, cits) ==
  IF Len(cits) > 0 THEN content \o citationsHtml(cits) ELSE content

\* index.ts:89-111
DoAssemble ==
  /\ pc = "loop" /\ step = "ASSEMBLE"
  /\ citations' = BuildCitations(competitorContent)
  /\ enhancedContent' =
       [enhancedContent EXCEPT
          !.content = AppendReferences(enhancedContent.content, citations')]
  /\ step' = StepAfter("ASSEMBLE")
  /\ cur' = Did(cur, "ASSEMBLE")
  /\ UNCHANGED <<envVars, store, now, mainVars, searchResults, k,
                 competitorContent, returned, runlog, health, fetched,
                 createReturned, auxVars>>

PublishBody_untagged(a, ec, cits, t) ==
  [title |-> ec.title, content |-> ec.content, excerpt |-> ec.excerpt,
   author |-> a.author, publishedAt |-> t,
   sourceUrl |-> SourceUrl(a.sourceUrl.base, t),
   tags |-> a.tags,
   originalArticleId |-> a.id, isEnhanced |-> TRUE,
   citedReferences |-> cits,
   enhancementDetails |-> ec.enhancementDetails]

\* index.ts:114-126: the record handed to createEnhancedArticle
PublishBody(a, ec, cits, t) ==
  [title |-> ec.title, content |-> ec.content, excerpt |-> ec.excerpt,
   author |-> a.author, publishedAt |-> t,
   sourceUrl |-> SourceUrl(a.sourceUrl.base, t),
   tags |-> Append(a.tags, "enhanced"),
   originalArticleId |-> a.id, isEnhanced |-> TRUE,
   citedReferences |-> cits,
   enhancementDetails |-> ec.enhancementDetails]

\* A POST of the script on its way through the backend: phase is the
\* database call createArticle makes next, awaited whether the client is
\* still waiting for the answer.
Post(run, call, body) ==
  [op |-> "create", run |-> run, call |-> call, body |-> body,
   phase |-> "check", awaited |-> TRUE]

Awaited == {req \in api.pending : req.awaited}

\* index.ts:113-126, ApiService.createEnhancedArticle up to its await: the
\* request is sent; it does not reach the backend (lost, thrown to the
\* catch), or it does
DoPublish ==
  /\ pc = "loop" /\ step = "PUBLISH" /\ Awaited = {}
  /\ \E lost \in BOOLEAN :
       IF lost
       THEN /\ Catch("PUBLISH", runlog)
            /\ cur' = Did(cur, "PUBLISH")
            /\ api' = api
       ELSE /\ api' = [api EXCEPT !.pending =
                         @ \cup {Post(runs, Len(runlog),
                                      PublishBody(article, enhancedContent,
                                                  citations, now))}]
            /\ UNCHANGED <<step, returned, runlog, cur>>
  /\ UNCHANGED <<envVars, store, now, mainVars, searchResults, k,
                 competitorContent, enhancedContent, citations, health,
                 fetched, createReturned, ops, runs, input, output, view>>

\* createArticle up to the end of the existence check (controller 69-79,
\* article.service.ts:19-25): 400 or 409 ends the request; a client that
\* still waits gets the status, which createEnhancedArticle throws
\* (api.service.ts:99-108)
BackendCheck(req) ==
  /\ req \in api.pending /\ req.phase = "check"
  /\ LET status == IF ~SchemaAccepts(req.body) THEN 400
                   ELSE IF UrlTaken(store, req.body.sourceUrl, Null) THEN 409
                   ELSE 0
     IN IF status = 0
        THEN /\ api' = [api EXCEPT !.pending =
                          (@ \ {req}) \cup {[req EXCEPT !.phase = "write"]}]
             /\ UNCHANGED <<step, returned, runlog, cur>>
        ELSE /\ api' = [api EXCEPT !.pending = @ \ {req}]
             /\ IF req.awaited
                THEN /\ Catch("PUBLISH", runlog)
                     /\ cur' = [Did(cur, "PUBLISH") EXCEPT
                                  !.got.status = status]
                ELSE UNCHANGED <<step, returned, runlog, cur>>
  /\ UNCHANGED <<envVars, store, now, mainVars, searchResults, k,
                 competitorContent, enhancedContent, citations, health,
                 fetched, createReturned, ops, runs, input, output, view>>

\* the rest of createArticle: prisma.article.create and the answer
\* (article.service.ts:27-32, controller 81-87); for a client that still
\* waits createEnhancedArticle returns on 201 and throws otherwise
BackendInsert(req) ==
  /\ req \in api.pending /\ req.phase = "write"
  /\ LET r == InsertArticle(store, SchemaOutput(req.body))
         log == IF req.run = runs /\ r.status = 201
                THEN [runlog EXCEPT ![req.call].stored = TRUE]
                ELSE runlog
     IN /\ store' = r.store
        /\ IF ~req.awaited
           THEN /\ runlog' = log
                /\ UNCHANGED <<step, returned, cur, createReturned>>
           ELSE /\ cur' = [Did(cur, "PUBLISH") EXCEPT
                             !.got.status = r.status]
                /\ IF r.status = 201
                   THEN /\ createReturned' = createReturned + 1
                        /\ step' = "DONE"
                        /\ returned' = TRUE
                        /\ runlog' = [log EXCEPT ![Len(log)].outcome = "DONE"]
                   ELSE /\ Catch("PUBLISH", log)
                        /\ UNCHANGED createReturned
  /\ api' = [api EXCEPT !.pending = @ \ {req}]
  /\ UNCHANGED <<envVars, now, mainVars, searchResults, k,
                 competitorContent, enhancedContent, citations, health,
                 fetched, ops, runs, input, output, view>>

\* api.service.ts:46: no answer within 30000 ms; the client throws and the
\* request stays with the backend, which handles it whenever it does,
\* whatever the script is doing by then, after it has exited included
GiveUp(req) ==
  /\ req \in Awaited
  /\ Cardinality(api.pending \ Awaited) < MaxLate
  /\ api' = [api EXCEPT !.pending =
               (@ \ {req}) \cup {[req EXCEPT !.awaited = FALSE]}]
  /\ Catch("PUBLISH", runlog)
  /\ cur' = Did(cur, "PUBLISH")
  /\ UNCHANGED <<envVars, store, now, mainVars, searchResults, k,
                 competitorContent, enhancedContent, citations, health,
                 fetched, createReturned, ops, runs, input, output, view>>

CountSuccess_always(count, success) == count + 1

\* index.ts:200
CountSuccess(count, success) == IF success THEN count + 1 ELSE count

AfterArticle_abortOnFailure(success, i, n) ==
  IF ~success THEN "exit" ELSE IF i < n THEN "delay" ELSE "summary"

AfterArticle_alwaysDelay(success, i, n) == "delay"

AfterArticle_stopOnFailure(success, i, n) ==
  IF success /\ i < n THEN "delay" ELSE "summary"

\* index.ts:195, 203-211: where main goes once enhanceArticle has returned
\* for the i-th of n articles
AfterArticle(success, i, n) == IF i < n THEN "delay" ELSE "summary"

\* index.ts:199-211: enhanceArticle has returned
Return ==
  /\ pc = "loop" /\ step \in {"DONE", "FAILED"}
  /\ successCount' = CountSuccess(successCount, returned)
  /\ step' = "idle"
  /\ pc' = AfterArticle(returned, idx, Len(articles))
  /\ UNCHANGED <<envVars, store, now, articles, idx, report, exitCode,
                 searchResults, k, competitorContent, enhancedContent,
                 citations, returned, histVars, auxVars>>

\* index.ts:203-210, 195: the pause between articles, then i++
Delay ==
  /\ pc = "delay"
  /\ now' = now + 1
  /\ idx' = idx + 1
  /\ pc' = "loop"
  /\ UNCHANGED <<envVars, store, articles, successCount, report, exitCode,
                 runVars, histVars, auxVars>>

\* index.ts:213-237, 242-245
Summary ==
  /\ pc = "summary"
  /\ report' = [processed |-> Len(articles), succeeded |-> successCount,
                failed |-> Len(articles) - successCount]
  /\ pc' = "exit"
  /\ exitCode' = 0
  /\ UNCHANGED <<envVars, store, now, articles, idx, successCount, runVars,
                 histVars, auxVars>>

Next ==
  \/ MainInitialize \/ HealthCheck \/ FetchBacklog
  \/ Invoke \/ DoSearch \/ DoExtract \/ DoSynthesize \/ DoAssemble
  \/ DoPublish \/ Return \/ Delay \/ Summary
  \/ \E req \in api.pending : BackendCheck(req)
  \/ \E req \in api.pending : BackendInsert(req)
  \/ \E req \in api.pending : GiveUp(req)

Spec == Init /\ [][Next]_vars

\* ======================================================= repeated runs
\* The script is started again over the store the previous run left
\* (index.ts:246: each start runs main once).
Restart ==
  /\ pc = "exit" /\ runs < MaxRuns
  /\ runs' = runs + 1
  /\ now' = now + 1
  /\ isInitialized' = FALSE
  /\ pc' = "init" /\ articles' = <<>> /\ idx' = 0 /\ successCount' = 0
  /\ report' = NoReport /\ exitCode' = -1
  /\ step' = "idle" /\ searchResults' = <<>> /\ k' = 0
  /\ competitorContent' = <<>> /\ enhancedContent' = NoContent
  /\ citations' = <<>> /\ returned' = FALSE
  /\ runlog' = <<>> /\ cur' = NoCalls
  /\ health' = "-" /\ fetched' = "no" /\ createReturned' = 0
  /\ UNCHANGED <<cfg, store, ops, api, input, output, view>>

\* the runs are repeated with the search on or off, the LLM configured
RerunConfigs ==
  {c \in Configs : c.enableLLM /\ c.geminiKey = "key" /\ c.searchCreds}

RerunInit ==
  /\ cfg \in RerunConfigs
  /\ \E n \in 0..RerunDocs : store = SeededStore(n)
  /\ InitRest

RerunNext == Next \/ Restart

RerunSpec == RerunInit /\ [][RerunNext]_vars

\* ================================================== the store under its API
\* The store as its clients drive it: the acquisition step, the pipeline's
\* publish, and arbitrary API clients creating and updating articles.

\* what an API client may post: u the URL (0: not a URL), e the enrichment
\* flag, p the parent reference (Null: none given)
ClientBody(u, e, p) ==
  [title |-> <<Chunk("title", 0, NoLink, "-", 17)>>,
   content |-> <<Chunk("body", 0, NoLink, "-", 1200)>>,
   excerpt |-> <<>>, author |-> "client", publishedAt |-> 0,
   sourceUrl |-> SourceUrl(u, 0), tags |-> <<>>,
   originalArticleId |-> p, isEnhanced |-> e,
   citedReferences |-> <<>>, enhancementDetails |-> <<>>]

PlainBodies == {ClientBody(u, e, p) : u \in {0, 1, 9}, e \in BOOLEAN,
                                      p \in {Null, 1}}

\* delete-mock-articles.ts:17-24, 36-41: the texts the script looks for, in
\* the content ("simulated enhancement") and in the annotations
MockPhrase == Chunk("lit-simulated-enhancement", 0, NoLink, "-", 21)
MockText == 0
ContainsMock(content) == \E j \in 1..Len(content) : content[j] = MockPhrase
HasMockDetails(d) ==
  \E j \in 1..Len(d.enhancementDetails) :
    d.enhancementDetails[j].newText = MockText

\* a body whose content carries the phrase
MockBody ==
  [ClientBody(9, FALSE, Null) EXCEPT !.content = Append(@, MockPhrase)]

ClientBodies == PlainBodies \cup {MockBody}

\* the bodies of PUT requests: has names the fields sent, v their values
UpdateBodies ==
  UNION {{[has |-> h, v |-> b] :
            b \in {c \in PlainBodies :
                     /\ ("sourceUrl" \notin h => c.sourceUrl = SourceUrl(0, 0))
                     /\ ("isEnhanced" \notin h => ~c.isEnhanced)
                     /\ ("originalArticleId" \notin h
                           => c.originalArticleId = Null)}} :
           h \in SUBSET {"sourceUrl", "isEnhanced", "originalArticleId"}}

storeRest == <<envVars, pc, articles, idx, successCount, report, exitCode,
               runVars, histVars, runs, input, output, view>>

\* the answer to a request that found the store st and left r.store
Answer(op, phase, r, conflict, st) ==
  [op |-> op, phase |-> phase, status |-> r.status, conflict |-> conflict,
   changed |-> r.store # st]

\* A request the backend is handling: n its number, phase the database
\* call it makes next.  Every await of the handlers yields, so the calls of
\* different requests interleave.
NoData == SchemaOutput(ClientBody(0, FALSE, Null))
Request(n, op, phase, id, has, v) ==
  [n |-> n, op |-> op, phase |-> phase, id |-> id, has |-> has, v |-> v,
   ids |-> {}]

\* the store an insert left, the new row carrying the id generated for it
\* (a uuid, never used before: here the number of the request)
Inserted(r, st, n) ==
  IF r.store = st THEN st ELSE [r.store EXCEPT ![Len(r.store)].id = n]

\* scraper.service.ts:120-126: the article the acquisition step scraped.
\* The content is its paragraphs joined by blank lines (the second
\* article's first paragraph ends one character before ExcerptLength);
\* the excerpt is the trimmed start of the content and "..."
Scraped(d) ==
  LET content == IF d % 2 = 1 THEN Original(d).content
                 ELSE <<Chunk("body", d, NoLink, "-", ExcerptLength - 1),
                        Blank, Chunk("body", d, NoLink, "-", 999)>>
  IN [Original(d) EXCEPT
        !.content = content,
        !.excerpt = Trim(Substring0(content, ExcerptLength)) \o Ellipsis]

\* seed script, part_003:25-35: findUnique on the scraped article's URL
SeedFind(d) ==
  /\ ops < MaxStoreOps
  /\ ops' = ops + 1
  /\ api' = IF UrlTaken(store, SourceUrl(d, 0), Null) THEN api
            ELSE [api EXCEPT !.pending =
                    @ \cup {Request(ops + 1, "seed", "write", Null,
                                    SchemaFields, SchemaOutput(Scraped(d)))}]
  /\ UNCHANGED <<store, now, storeRest>>

\* seed script, part_003:37-54: prisma.article.create; a rejection is
\* caught and logged
SeedCreate(req) ==
  /\ req \in api.pending /\ req.op = "seed"
  /\ store' = Inserted(InsertArticle(store, req.v), store, req.n)
  /\ api' = [api EXCEPT !.pending = @ \ {req}]
  /\ UNCHANGED <<now, ops, storeRest>>

\* createArticle up to the end of the existence check (controller 69-79,
\* article.service.ts:19-25)
CreateCheck(body) ==
  /\ ops < MaxStoreOps
  /\ ops' = ops + 1
  /\ api' =
       IF ~SchemaAccepts(body)
       THEN [api EXCEPT !.last = Answer("create", "check",
               [status |-> 400, store |-> store], FALSE, store)]
       ELSE IF UrlTaken(store, body.sourceUrl, Null)
       THEN [api EXCEPT !.last = Answer("create", "check",
               [status |-> 409, store |-> store], TRUE, store)]
       ELSE [api EXCEPT !.pending =
               @ \cup {Request(ops + 1, "create", "write", Null,
                               SchemaFields, SchemaOutput(body))}]
  /\ UNCHANGED <<store, now, storeRest>>

\* the rest of it: prisma.article.create and the answer
\* (article.service.ts:27-32, controller 81-87)
CreateInsert(req) ==
  /\ req \in api.pending /\ req.op = "create"
  /\ LET r == InsertArticle(store, req.v)
     IN /\ store' = Inserted(r, store, req.n)
        /\ api' = [pending |-> api.pending \ {req},
                   last |-> Answer("create", "write", r,
                                   UrlTaken(store, req.v.sourceUrl, Null),
                                   store)]
  /\ UNCHANGED <<now, ops, storeRest>>

\* updateArticle up to the end of findById (controller 96-108,
\* article.service.ts:113-114)
UpdateFind(id, body) ==
  /\ ops < MaxStoreOps
  /\ ops' = ops + 1
  /\ api' =
       IF ~UpdateSchemaAccepts(body)
       THEN [api EXCEPT !.last = Answer("update", "find",
               [status |-> 400, store |-> store], FALSE, store)]
       ELSE IF id \notin StoreIds(store)
       THEN [api EXCEPT !.last = Answer("update", "find",
               [status |-> 404, store |-> store], FALSE, store)]
       ELSE [api EXCEPT !.pending =
               @ \cup {Request(ops + 1, "update",
                               IF "sourceUrl" \in body.has THEN "check"
                               ELSE "write",
                               id, body.has, SchemaOutput(body.v))}]
  /\ UNCHANGED <<store, now, storeRest>>

\* the conflict check of an update that carries a sourceUrl
\* (article.service.ts:117-128)
UpdateCheck(req) ==
  /\ req \in api.pending /\ req.op = "update" /\ req.phase = "check"
  /\ api' =
       IF UrlTaken(store, req.v.sourceUrl, req.id)
       THEN [pending |-> api.pending \ {req},
             last |-> Answer("update", "check",
                             [status |-> 409, store |-> store], TRUE, store)]
       ELSE [api EXCEPT !.pending =
               (@ \ {req}) \cup {[req EXCEPT !.phase = "write"]}]
  /\ UNCHANGED <<store, now, ops, storeRest>>

\* the rest of it: prisma.article.update (article.service.ts:130-136)
UpdateWrite(req) ==
  /\ req \in api.pending /\ req.op = "update" /\ req.phase = "write"
  /\ LET r == WriteArticle(store, req.id, [has |-> req.has, v |-> req.v])
     IN /\ store' = r.store
        /\ api' = [pending |-> api.pending \ {req},
                   last |-> Answer("update", "write", r,
                                   /\ "sourceUrl" \in req.has
                                   /\ UrlTaken(store, req.v.sourceUrl, req.id),
                                   store)]
  /\ UNCHANGED <<now, ops, storeRest>>

\* What the parent reference of the other articles becomes when an article
\* is deleted is set by the database schema, which is not among the
\* sources: the reference is cleared, or the articles are deleted with it,
\* or the delete is rejected while there are any.
DeleteRules == {"SetNull", "Cascade", "Restrict"}

\* the articles that go when those of ids do
RECURSIVE Doomed(_, _, _)
Doomed(st, ids, rule) ==
  LET more == ids \cup {st[j].id : j \in {i \in 1..Len(st) :
                                           st[i].originalArticleId \in ids}}
  IN IF rule # "Cascade" \/ more = ids THEN ids ELSE Doomed(st, more, rule)

\* prisma.article.deleteMany on the articles of ids: [ok, store]
RemoveArticles(st, ids, rule) ==
  LET gone == Doomed(st, ids \cap StoreIds(st), rule)
      stays(d) == d.id \notin gone
      refers(d) == d.originalArticleId \in gone
      kept == SelectSeq(st, stays)
  IN IF rule = "Restrict" /\ \E j \in 1..Len(kept) : refers(kept[j])
     THEN [ok |-> FALSE, store |-> st]
     ELSE [ok |-> TRUE,
           store |-> [j \in 1..Len(kept) |->
                        IF refers(kept[j])
                        THEN [kept[j] EXCEPT !.originalArticleId = Null]
                        ELSE kept[j]]]

\* prisma.article.delete: an id that is not stored is a known request
\* error, as is a rejected delete
RemoveArticle(st, id, rule) ==
  LET r == RemoveArticles(st, {id}, rule)
  IN IF id \in StoreIds(st) /\ r.ok
     THEN [status |-> 200, store |-> r.store]
     ELSE [status |-> 400, store |-> st]

\* deleteArticle up to the end of findById (controller 122-126,
\* article.service.ts:143-144)
DeleteFind(id) ==
  /\ ops < MaxStoreOps
  /\ ops' = ops + 1
  /\ api' =
       IF id \notin StoreIds(store)
       THEN [api EXCEPT !.last = Answer("delete", "find",
               [status |-> 404, store |-> store], FALSE, store)]
       ELSE [api EXCEPT !.pending =
               @ \cup {Request(ops + 1, "delete", "write", id, {}, NoData)}]
  /\ UNCHANGED <<store, now, storeRest>>

\* the rest of it: prisma.article.delete (article.service.ts:146-148)
DeleteRemove(req, rule) ==
  /\ req \in api.pending /\ req.op = "delete"
  /\ LET r == RemoveArticle(store, req.id, rule)
     IN /\ store' = r.store
        /\ api' = [pending |-> api.pending \ {req},
                   last |-> Answer("delete", "write", r, FALSE, store)]
  /\ UNCHANGED <<now, ops, storeRest>>

\* cleanup-articles.ts:15-19: how many enhanced articles the script keeps
KeepCount == 5

\* cleanup-articles.ts:14-34: the newest enhanced articles and the
\* originals they refer to are to be kept; without enhanced articles the
\* script stops
CleanupFind ==
  /\ ops < MaxStoreOps
  /\ ops' = ops + 1
  /\ LET enhanced == Slice0(Reverse(SelectSeq(store,
                                LAMBDA d : d.isEnhanced)), KeepCount)
         keep == {enhanced[j].id : j \in 1..Len(enhanced)}
                 \cup ({enhanced[j].originalArticleId :
                          j \in 1..Len(enhanced)} \ {Null})
     IN api' = IF Len(enhanced) = 0 THEN api
               ELSE [api EXCEPT !.pending =
                       @ \cup {[Request(ops + 1, "cleanup", "write", Null,
                                        {}, NoData) EXCEPT !.ids = keep]}]
  /\ UNCHANGED <<store, now, storeRest>>

\* cleanup-articles.ts:62-73: deleteMany of every other article; a
\* rejection is caught and logged
CleanupDelete(req, rule) ==
  /\ req \in api.pending /\ req.op = "cleanup"
  /\ store' = RemoveArticles(store, StoreIds(store) \ req.ids, rule).store
  /\ api' = [api EXCEPT !.pending = @ \ {req}]
  /\ UNCHANGED <<now, ops, storeRest>>

\* delete-mock-articles.ts:16-24: the articles with the phrase in their
\* content
MockFind ==
  /\ ops < MaxStoreOps
  /\ ops' = ops + 1
  /\ api' = [api EXCEPT !.pending =
               @ \cup {[Request(ops + 1, "mock", "find", Null, {}, NoData)
                          EXCEPT !.ids = {store[j].id : j \in
                                   {i \in 1..Len(store) :
                                      ContainsMock(store[i].content)}}]}]
  /\ UNCHANGED <<store, now, storeRest>>

\* delete-mock-articles.ts:32-58: the enhanced articles with the texts in
\* their annotations are added; with no article found the script stops
MockFindEnhanced(req) ==
  /\ req \in api.pending /\ req.op = "mock" /\ req.phase = "find"
  /\ LET ids == req.ids \cup
                  {store[j].id : j \in
                     {i \in 1..Len(store) :
                        store[i].isEnhanced /\ HasMockDetails(store[i])}}
     IN api' = [api EXCEPT !.pending =
                  (@ \ {req}) \cup
                  (IF ids = {} THEN {}
                   ELSE {[req EXCEPT !.phase = "write", !.ids = ids]})]
  /\ UNCHANGED <<store, now, ops, storeRest>>

\* delete-mock-articles.ts:60-72: deleteMany of the articles found; a
\* rejection is caught and logged
MockDelete(req, rule) ==
  /\ req \in api.pending /\ req.op = "mock" /\ req.phase = "write"
  /\ store' = RemoveArticles(store, req.ids, rule).store
  /\ api' = [api EXCEPT !.pending = @ \ {req}]
  /\ UNCHANGED <<now, ops, storeRest>>

\* index.ts:182: the pipeline fetches a stored original; the copy is what
\* it works from until it publishes
PipelineFetch(j) ==
  /\ ops < MaxStoreOps
  /\ j \in 1..Len(store) /\ IsOriginal(store[j])
  /\ ops' = ops + 1
  /\ api' = [api EXCEPT !.pending =
               @ \cup {Request(ops + 1, "publish", "fetched", store[j].id, {},
                               store[j])}]
  /\ UNCHANGED <<store, now, storeRest>>

\* index.ts:90-93: the citations the pipeline gathered for its copy
PublishSources == {<<>>, <<[title |-> "A", url |-> LinkA]>>}

\* index.ts:113-126: the pipeline posts the enriched variant of its copy,
\* synthesized or passed through, with or without a source; the request is
\* lost, or reaches createArticle
PipelinePost(req, synthesized, cits, lost) ==
  /\ req \in api.pending /\ req.op = "publish"
  /\ LET copy == req.v
         ec == IF synthesized THEN EnhancedObject(copy.id)
               ELSE PassThrough(copy)
         body == PublishBody(copy,
                   [ec EXCEPT !.content = AppendReferences(@, cits)],
                   cits, now)
     IN api' =
          IF lost THEN [api EXCEPT !.pending = @ \ {req}]
          ELSE IF ~SchemaAccepts(body)
          THEN [pending |-> api.pending \ {req},
                last |-> Answer("create", "check",
                                [status |-> 400, store |-> store], FALSE,
                                store)]
          ELSE IF UrlTaken(store, body.sourceUrl, Null)
          THEN [pending |-> api.pending \ {req},
                last |-> Answer("create", "check",
                                [status |-> 409, store |-> store], TRUE,
                                store)]
          ELSE [api EXCEPT !.pending =
                  (@ \ {req}) \cup {Request(req.n, "create", "write", Null,
                                           SchemaFields, SchemaOutput(body))}]
  /\ now' = now + 1
  /\ UNCHANGED <<store, ops, storeRest>>

StoreInit ==
  /\ cfg = [enableGoogleSearch |-> TRUE, enableLLM |-> TRUE,
            geminiKey |-> "key", searchCreds |-> TRUE]
  /\ store = <<>>
  /\ InitRest

StoreNext ==
  \/ \E d \in 1..2 : SeedFind(d)
  \/ \E req \in api.pending : SeedCreate(req)
  \/ \E body \in ClientBodies : CreateCheck(body)
  \/ \E req \in api.pending : CreateInsert(req)
  \/ \E id \in 1..MaxStoreOps, body \in UpdateBodies : UpdateFind(id, body)
  \/ \E req \in api.pending : UpdateCheck(req)
  \/ \E req \in api.pending : UpdateWrite(req)
  \/ \E id \in 1..MaxStoreOps : DeleteFind(id)
  \/ \E req \in api.pending, rule \in DeleteRules : DeleteRemove(req, rule)
  \/ CleanupFind
  \/ \E req \in api.pending, rule \in DeleteRules : CleanupDelete(req, rule)
  \/ MockFind
  \/ \E req \in api.pending : MockFindEnhanced(req)
  \/ \E req \in api.pending, rule \in DeleteRules : MockDelete(req, rule)
  \/ \E j \in 1..MaxStoreOps : PipelineFetch(j)
  \/ \E req \in api.pending, synthesized \in BOOLEAN, cits \in PublishSources,
        lost \in BOOLEAN : PipelinePost(req, synthesized, cits, lost)

StoreSpec == StoreInit /\ [][StoreNext]_vars

\* ============================================ the Synthesizer on its own
\* LLMService.enhanceArticle applied to one response of the backend.
\* An object whose excerpt or title is the empty string, a JSON scalar,
\* null, prose of 900 and of 150 characters, the empty text.
Payloads ==
  { [kind |-> "object", text |-> ObjectText(1), obj |-> EnhancedObject(1)],
    [kind |-> "object", text |-> ObjectText(1),
     obj |-> [EnhancedObject(1) EXCEPT !.excerpt = <<>>]],
    [kind |-> "object", text |-> ObjectText(1),
     obj |-> [EnhancedObject(1) EXCEPT !.title = <<>>]],
    [kind |-> "scalar", text |-> <<Chunk("json-scalar", 1, NoLink, "-", 12)>>,
     obj |-> NoFields],
    [kind |-> "null", text |-> <<Chunk("json-null", 1, NoLink, "-", 4)>>,
     obj |-> NoFields],
    [kind |-> "prose", text |-> <<Chunk("prose", 1, NoLink, "-", 900)>>,
     obj |-> NoFields],
    [kind |-> "prose", text |-> <<Chunk("prose", 1, NoLink, "-", 150)>>,
     obj |-> NoFields],
    [kind |-> "empty", text |-> <<>>, obj |-> NoFields] }

ParseInputs ==
  { [fn |-> "parse", pre |-> pre, pad |-> pad, open |-> open,
     closed |-> closed, kind |-> p.kind,
     response |-> [text |-> ResponseText(pre, pad, open, closed, p.text),
                   obj |-> p.obj],
     original |-> [title |-> Original(1).title,
                   content |-> Original(1).content]] :
    pre \in BOOLEAN, pad \in BOOLEAN,
    open \in {"none", "json", "plain", "other"}, closed \in BOOLEAN,
    p \in Payloads }

\* a service used on its own: no batch is running, the LLM is initialized
FnInit ==
  /\ cfg = [enableGoogleSearch |-> TRUE, enableLLM |-> TRUE,
            geminiKey |-> "key", searchCreds |-> TRUE]
  /\ isInitialized = TRUE
  /\ store = <<>> /\ now = 1
  /\ pc = "init" /\ articles = <<>> /\ idx = 0 /\ successCount = 0
  /\ report = NoReport /\ exitCode = -1
  /\ step = "idle" /\ searchResults = <<>> /\ k = 0
  /\ competitorContent = <<>> /\ enhancedContent = NoContent
  /\ citations = <<>> /\ returned = FALSE
  /\ runlog = <<>> /\ cur = NoCalls
  /\ health = "-" /\ fetched = "no" /\ createReturned = 0
  /\ ops = 0 /\ api = NoRequests /\ runs = 1
  /\ view = NoPage

fnRest == <<envVars, store, now, mainVars, runVars, histVars, ops, api, runs,
            view>>

Synthesize ==
  /\ input.fn = "parse" /\ output = NoCall
  /\ output' = [fn |-> "parse",
                val |-> llmEnhanceArticle(TRUE, input.original, <<>>,
                          [ok |-> TRUE, response |-> input.response])]
  /\ UNCHANGED <<input, fnRest>>

ParseInit ==
  /\ FnInit
  /\ input \in ParseInputs /\ output = NoCall

ParseSpec == ParseInit /\ [][Synthesize]_vars

\* ============================================== the Retriever on its own
\* searchWithAPI applied to one answer of the search backend.
Titles == <<"r1", "r2", "r3", "r4", "r5", "r6", "r7", "r8", "r9", "r10",
            "r11", "r12">>

\* the j-th result of a ranking: on no denylisted site (clean); every other
\* one on a denylisted site (mixed); all on denylisted sites, or on their
\* www. subdomains (denied); every third one a page of another site with a
\* denylisted name in its path or in its query (path); every third one on
\* a site whose name ends with a denylisted name (super); every third one
\* without a link (nolink)
RankedLink(pat, j) ==
  CASE pat = "mixed" /\ j % 2 = 1 -> Link(<<Denylist[(j % 5) + 1]>>, <<"post">>)
    [] pat = "denied" /\ j % 2 = 1 ->
         Link(<<Denylist[(j % 5) + 1]>>, <<"post">>)
    [] pat = "denied" /\ j % 2 = 0 ->
         Link(<<"www.", Denylist[(j % 5) + 1]>>, <<"post">>)
    [] pat = "path" /\ j % 6 = 0 ->
         Link(<<"c.example">>, <<"why-", Denylist[(j % 5) + 1], "-works">>)
    [] pat = "path" /\ j % 6 = 3 ->
         Link(<<"c.example">>, <<"post?ref=", Denylist[(j % 5) + 1]>>)
    [] pat = "super" /\ j % 3 = 0 ->
         Link(<<"not", Denylist[(j % 5) + 1]>>, <<"post">>)
    [] pat = "nolink" /\ j % 3 = 0 -> EmptyLink
    [] OTHER -> IF j % 2 = 0 THEN LinkA ELSE LinkB

Ranking(pat, m) == [j \in 1..m |-> Item(Titles[j], RankedLink(pat, j))]

SearchInputs ==
  { [fn |-> "search", numResults |-> n,
     backend |-> [ok |-> ok, items |-> Ranking(pat, m)]] :
    n \in {1, 2, 3, SearchCap, SearchCap + 1, 5 * SearchCap},
    ok \in BOOLEAN,
    pat \in {"clean", "mixed", "denied", "path", "super", "nolink"},
    m \in 0..Len(Titles) }

Retrieve ==
  /\ input.fn = "search" /\ output = NoCall
  /\ output' = [fn |-> "search", num |-> RequestNum(input.numResults),
                items |-> input.backend.items,
                val |-> searchWithAPI(input.numResults, input.backend)]
  /\ UNCHANGED <<input, fnRest>>

SearchInit ==
  /\ FnInit
  /\ input \in SearchInputs /\ output = NoCall

SearchSpec == SearchInit /\ [][Retrieve]_vars

\* ============================================== the Extractor on its own
\* scrapeArticleContent applied to one fetched page.
CandidateLengths == {0, 120, SelectorMin - 1, SelectorMin, SelectorMin + 1,
                     1200}

\* container texts: without whitespace runs, or with one line break pair
\* in the middle
CandidateTexts ==
  {Plain(n) : n \in CandidateLengths} \cup {Raw(SelectorMin + 1, SelectorMin)}

ParagraphLists ==
  { <<>>, <<Plain(300)>>, <<Plain(100), Plain(99)>>,
    <<Plain(0), Raw(300, 298), Plain(0)>>,
    <<Plain(ScrapeMax \div 2), Plain(ScrapeMax \div 2 - 1)>>,
    <<Plain(ScrapeMax + 1000)>> }

ScrapeInputs ==
  { [fn |-> "scrape", url |-> LinkA,
     page |-> [ok |-> ok, cands |-> c, paras |-> p]] :
    ok \in BOOLEAN,
    c \in {<<>>} \cup {<<x>> : x \in CandidateTexts}
          \cup {<<x, y>> : x \in CandidateTexts, y \in CandidateTexts},
    p \in ParagraphLists }

Extract ==
  /\ input.fn = "scrape" /\ output = NoCall
  /\ output' = [fn |-> "scrape",
                val |-> scrapeArticleContent(input.url, input.page)]
  /\ UNCHANGED <<input, fnRest>>

ExtractInit ==
  /\ FnInit
  /\ input \in ScrapeInputs /\ output = NoCall

ExtractSpec == ExtractInit /\ [][Extract]_vars

\* ================================================ the article detail page
\* ArticlePage over a store that a batch has enriched: PageDocs originals
\* and one enriched variant of each.  The route id changes while the page
\* stays mounted (App.tsx:13, part_002:153, 182).
PageDocs == 2
MaxVisits == 3

\* the store a batch leaves: it publishes a pass-through variant of every
\* article of its backlog, in backlog order, one tick apart
RECURSIVE EnrichedStore(_, _, _)
EnrichedStore(st, backlog, t) ==
  IF backlog = <<>> THEN st
  ELSE EnrichedStore(createArticle(st, PublishBody(Head(backlog),
                                                   PassThrough(Head(backlog)),
                                                   <<>>, t)).store,
                     Tail(backlog), t + 1)

PageStore ==
  EnrichedStore(SeededStore(PageDocs),
                getOriginalArticles(SeededStore(PageDocs)), 1)

\* the ids a route can carry: those of the store and one it does not hold
RouteIds == 1..(2 * PageDocs + 1)

\* article.service.ts:92-106, 156-171 behind part_001:90-106: the article,
\* or a rejection when the store has none with this id
findById(st, id) ==
  IF id \in StoreIds(st)
  THEN [ok |-> TRUE,
        data |-> st[CHOOSE j \in 1..Len(st) : st[j].id = id],
        message |-> ""]
  ELSE [ok |-> FALSE, data |-> NoArticle, message |-> "404"]

\* the request is answered by the store, or fails (timeout, network)
Fetched(st, id, answered) ==
  IF answered THEN findById(st, id)
  ELSE [ok |-> FALSE, data |-> NoArticle, message |-> "network"]

\* part_002:22-29, 55-56: the route id changes, the effect runs
\* fetchArticle up to its first await
OpenPage(id) ==
  /\ view.visits < MaxVisits /\ id # view.id
  /\ view' = [view EXCEPT
                !.id = id, !.loading = TRUE, !.error = "",
                !.visits = @ + 1, !.latest = "-", !.latestOriginal = "-",
                !.fetches = @ \cup {[n |-> view.visits + 1, id |-> id,
                                     at |-> "article"]}]
  /\ UNCHANGED <<envVars, store, now, mainVars, runVars, histVars, ops, api,
                 runs, input, output>>

\* part_002:29-35, 46-52: getArticleWithEnhanced settles for fetch f
ArticleAnswer(f, answered) ==
  /\ f \in view.fetches /\ f.at = "article"
  /\ LET r == Fetched(store, f.id, answered)
         more == r.ok /\ r.data.isEnhanced /\ r.data.originalArticleId # Null
     IN view' = [view EXCEPT
           !.article = IF r.ok THEN r.data ELSE @,
           !.showComparison = IF r.ok /\ r.data.isEnhanced THEN TRUE ELSE @,
           !.error = IF r.ok THEN @ ELSE r.message,
           !.loading = IF more THEN @ ELSE FALSE,
           !.fetches = (@ \ {f}) \cup
             (IF more THEN {[n |-> f.n, id |-> r.data.originalArticleId,
                             at |-> "original"]}
              ELSE {}),
           !.latest = IF f.n = view.visits
                      THEN (IF r.ok THEN "ok" ELSE "error") ELSE @]
  /\ UNCHANGED <<envVars, store, now, mainVars, runVars, histVars, ops, api,
                 runs, input, output>>

\* part_002:36-44, 50-52: getArticle for the original settles for fetch f
OriginalAnswer(f, answered) ==
  /\ f \in view.fetches /\ f.at = "original"
  /\ LET r == Fetched(store, f.id, answered)
     IN view' = [view EXCEPT
           !.originalArticle = IF r.ok THEN r.data ELSE @,
           !.loading = FALSE,
           !.fetches = @ \ {f},
           !.latestOriginal = IF f.n = view.visits
                              THEN (IF r.ok THEN "ok" ELSE "error") ELSE @]
  /\ UNCHANGED <<envVars, store, now, mainVars, runVars, histVars, ops, api,
                 runs, input, output>>

PageInit ==
  /\ cfg = [enableGoogleSearch |-> TRUE, enableLLM |-> TRUE,
            geminiKey |-> "key", searchCreds |-> TRUE]
  /\ store = PageStore
  /\ InitRest

\* The comparison toggle (part_002:158-164) is rendered only for an
\* article that carries its original (part_002:138), which
\* /articles/:id/enhanced never includes (article.service.ts:156-171): it
\* cannot be clicked.
PageNext ==
  \/ \E id \in RouteIds : OpenPage(id)
  \/ \E f \in view.fetches, answered \in BOOLEAN : ArticleAnswer(f, answered)
  \/ \E f \in view.fetches, answered \in BOOLEAN : OriginalAnswer(f, answered)

PageSpec == PageInit /\ [][PageNext]_vars

\* =============================================================== claims
\* the enriched document the store inserted for the call under way
Published ==
  CHOOSE d \in {store[j] : j \in 1..Len(store)} :
    d.isEnhanced /\ d.originalArticleId = article.id

InvokedIds == [j \in 1..Len(runlog) |-> runlog[j].id]
BacklogIds == [j \in 1..Len(articles) |-> articles[j].id]
BatchStarted == fetched = "ok" /\ Len(articles) > 0

\* the store holds an enriched variant of document id
Enriched(id) ==
  \E j \in 1..Len(store) :
    store[j].isEnhanced /\ store[j].originalArticleId = id

\* C1: whatever fails for a document, the runner calls enhanceArticle on
\* every document of the backlog, in backlog order, and only then reports
\* the summary and exits; it is never stuck before that.
C1_EveryDocumentProcessed ==
  /\ Len(runlog) <= Len(articles)
  /\ InvokedIds = SubSeq(BacklogIds, 1, Len(runlog))
  /\ (pc \in {"loop", "delay"} => Len(runlog) \in {idx - 1, idx})
  /\ (pc = "summary" => InvokedIds = BacklogIds)
  /\ (pc = "exit" /\ BatchStarted =>
        /\ InvokedIds = BacklogIds
        /\ report.processed = Len(articles)
        /\ exitCode = 0)
  /\ (pc # "exit" => ENABLED Next)

C1_Witness ==
  /\ pc = "exit" /\ Len(runlog) = 3
  /\ runlog[1].failedAt = "PUBLISH"
  /\ runlog[2].failedAt = "SYNTHESIZE"
  /\ runlog[3].outcome = "DONE"
  /\ report.processed = 3

\* C2: the summary has processed = backlog length, succeeded + failed =
\* processed, and succeeded = the number of createEnhancedArticle calls
\* that returned; each of these documents is stored as enriched.
C2_CountsAgree ==
  report # NoReport =>
    /\ report.processed = Len(articles)
    /\ report.succeeded + report.failed = report.processed
    /\ report.succeeded = createReturned
    /\ report.succeeded =
         Cardinality({j \in 1..Len(runlog) : runlog[j].outcome = "DONE"})
    /\ \A j \in 1..Len(runlog) :
         runlog[j].outcome = "DONE" => Enriched(runlog[j].id)

C2_Witness ==
  /\ report = [processed |-> 3, succeeded |-> 2, failed |-> 1]
  /\ runlog[2].backendFailed
  /\ Enriched(articles[1].id) /\ ~Enriched(articles[2].id)
  /\ Enriched(articles[3].id)

ExpectedSteps ==
  <<"SEARCH">> \o [j \in 1..Len(searchResults) |-> "EXTRACT"]
  \o <<"SYNTHESIZE", "ASSEMBLE", "PUBLISH">>

\* C3: the store create is called only once SEARCH, every EXTRACT,
\* SYNTHESIZE and ASSEMBLE are done; what it stores is the assembled
\* record; a run that is under way or has FAILED leaves no enriched record.
C3_NoPartialDocument ==
  /\ \A j \in 1..Len(runlog) :
       runlog[j].outcome # "DONE" => ~Enriched(runlog[j].id)
  /\ (step \in {"DONE", "FAILED"} /\ cur.steps[Len(cur.steps)] = "PUBLISH"
        => cur.steps = ExpectedSteps)
  /\ (step = "DONE" =>
        LET doc == Published IN
        /\ doc.originalArticleId = article.id
        /\ doc.title = enhancedContent.title
        /\ doc.content = enhancedContent.content
        /\ doc.excerpt = enhancedContent.excerpt
        /\ doc.citedReferences = BuildCitations(competitorContent))

C3_Witness ==
  /\ step = "DONE" /\ Len(citations) = 2
  /\ Len(runlog) = 2 /\ runlog[1].outcome = "FAILED"

\* C4: when generateContent raises, llmService.enhanceArticle throws (it
\* returns neither null nor content), the document ends FAILED at
\* SYNTHESIZE and no enriched record of it is stored.
C4_BackendErrorPropagates ==
  \A j \in 1..Len(runlog) :
    runlog[j].backendFailed =>
      /\ runlog[j].llm = "throw"
      /\ runlog[j].outcome = "FAILED"
      /\ runlog[j].failedAt = "SYNTHESIZE"
      /\ ~Enriched(runlog[j].id)

C4_Witness ==
  /\ pc = "exit" /\ Len(runlog) = 2
  /\ runlog[1].backendFailed /\ runlog[2].outcome = "DONE"

\* C5: every citation of a published enriched document has the URL of a
\* source that was passed to the Synthesizer in that document's run.
C5_NoOrphanCitations ==
  step = "DONE" =>
    \A c \in 1..Len(Published.citedReferences) :
      \E q \in 1..Len(cur.passed) :
        cur.passed[q] = Published.citedReferences[c].url

RECURSIVE ExpectedKept(_)
ExpectedKept(n) ==
  IF n = 0 THEN <<>>
  ELSE IF cur.scrapes[n].len > 200
       THEN Append(ExpectedKept(n - 1),
                   [title |-> searchResults[n].title,
                    url |-> searchResults[n].url, len |-> cur.scrapes[n].len])
       ELSE ExpectedKept(n - 1)

\* C6: every kept source has more than 200 characters of text (200 or
\* fewer is dropped), and the kept sources are, in order, the search
\* results whose text passed.
C6_FilterInvariant ==
  /\ \A j \in 1..Len(competitorContent) :
       TextLen(competitorContent[j].content) > 200
  /\ [j \in 1..Len(competitorContent) |->
        [title |-> competitorContent[j].title,
         url |-> competitorContent[j].url,
         len |-> TextLen(competitorContent[j].content)]]
     = ExpectedKept(Len(cur.scrapes))

C6_Witness ==
  /\ Len(cur.scrapes) = 2
  /\ cur.scrapes[1].len = 200 /\ cur.scrapes[2].len = 201
  /\ Len(competitorContent) = 1
  /\ competitorContent[1].url = searchResults[2].url

\* C7: a failed search gives no results and a failed page fetch gives the
\* empty text, neither raises: no run is FAILED at SEARCH or EXTRACT, and
\* a run whose search failed, or all of whose fetches failed, goes on to
\* PUBLISH with no sources.
C7_DegradeToEmpty ==
  /\ \A j \in 1..Len(runlog) : runlog[j].failedAt \notin {"SEARCH", "EXTRACT"}
  /\ (cur.search \in {"error", "nocreds"} => searchResults = <<>>)
  /\ \A j \in 1..Len(cur.scrapes) :
       ~cur.scrapes[j].ok => cur.scrapes[j].len = 0
  /\ ((\/ cur.search \in {"error", "nocreds"}
       \/ /\ Len(cur.scrapes) > 0 /\ step # "EXTRACT"
          /\ \A j \in 1..Len(cur.scrapes) : ~cur.scrapes[j].ok)
      => /\ competitorContent = <<>>
         /\ (step = "FAILED" => runlog[Len(runlog)].failedAt = "PUBLISH"))

C7_Witness ==
  /\ step = "DONE" /\ cur.search = "error"
  /\ citations = <<>> /\ Published.citedReferences = <<>>

\* C8: with an empty backlog enhanceArticle is never called, nothing is
\* created, and the process exits with status 0.
C8_EmptyBacklog ==
  fetched = "ok" /\ Len(articles) = 0 =>
    /\ pc = "exit" /\ exitCode = 0
    /\ runlog = <<>> /\ createReturned = 0
    /\ \A j \in 1..Len(store) : ~store[j].isEnhanced
    /\ report = NoReport

C8_Witness == fetched = "ok" /\ Len(articles) = 0 /\ pc = "exit"

\* C9: when the health check fails the process exits with status 1; the
\* backlog is not fetched, enhanceArticle is never called and nothing is
\* created.
C9_HealthCheckFails ==
  health = "down" =>
    /\ pc = "exit" /\ exitCode = 1
    /\ fetched = "no" /\ articles = <<>>
    /\ runlog = <<>> /\ createReturned = 0
    /\ store = SeededStore(Len(store))

C9_Witness == health = "down" /\ pc = "exit" /\ Len(store) = 2

\* C10: in every state of the store, a document has the enrichment flag
\* set if and only if it has a parent reference.
C10_EnrichedIffParent ==
  \A j \in 1..Len(store) :
    store[j].isEnhanced <=> store[j].originalArticleId # Null

\* C11: a create whose sourceUrl is stored, and an update to the sourceUrl
\* of another article, is answered 409 and leaves the store as it was; no
\* two stored articles share a sourceUrl, requests interleaved between the
\* existence check and the write included.
C11_UniqueSourceUrl ==
  /\ \A i, j \in 1..Len(store) :
       i # j => store[i].sourceUrl # store[j].sourceUrl
  /\ (api.last.conflict => ~api.last.changed /\ api.last.status = 409)

\* C12: however many times the batch is run over a store, no original
\* has more than one enriched variant.
C12_AtMostOneEnriched ==
  \A i, j \in 1..Len(store) :
    /\ store[i].isEnhanced /\ store[j].isEnhanced
    /\ store[i].originalArticleId = store[j].originalArticleId
    => i = j
\* C13: the record stored by a successful run has the original's author,
\* the original's tags followed by "enhanced", the original's id as parent,
\* the enrichment flag set, the assembled citations, and a sourceUrl that
\* is the original's plus a suffix, hence not the original's.
C13_PublishedRecord ==
  step = "DONE" =>
    LET doc == Published IN
    /\ doc.author = article.author
    /\ doc.tags = article.tags \o <<"enhanced">>
    /\ doc.originalArticleId = article.id
    /\ doc.isEnhanced
    /\ doc.citedReferences = BuildCitations(competitorContent)
    /\ doc.sourceUrl.base = article.sourceUrl.base
    /\ doc.sourceUrl.suffix # 0
    /\ doc.sourceUrl # article.sourceUrl
    /\ \A j \in 1..Len(store) :
         store[j].id # doc.id => store[j].sourceUrl # doc.sourceUrl

C13_Witness ==
  /\ step = "DONE" /\ article.id = 2
  /\ Len(Published.citedReferences) = 1
  /\ Published.tags = <<"chatbots", "enhanced">>
\* C14: when the Synthesizer's response parsed with k annotations and the
\* run succeeded, the stored enriched document carries those k annotations.
C14_AnnotationsPersisted ==
  step = "DONE" /\ runlog[Len(runlog)].llm = "value" =>
    Published.enhancementDetails = enhancedContent.enhancementDetails
\* the response is the object alone or the object between an opening and
\* a closing code-fence marker, blanks around it or not
WrappedObject ==
  /\ input.kind = "object" /\ ~input.pre
  /\ (input.open = "none" <=> ~input.closed)

\* C15: parsing a response that is a JSON object with title, content and
\* excerpt, bare or between code-fence markers, gives exactly the object's
\* title, content and excerpt.
C15_RoundTrip ==
  output # NoCall /\ WrappedObject =>
    /\ output.val.tag = "value"
    /\ output.val.val.title = input.response.obj.title
    /\ output.val.val.content = input.response.obj.content
    /\ output.val.val.excerpt = input.response.obj.excerpt

\* C16: for a response that is not a JSON object the Synthesizer returns
\* a value whose content is the response, not empty; whose title is the
\* original's followed by " (Enhanced)"; whose excerpt is the first 200
\* characters of the response; and which has no annotations.
C16_FallbackContent ==
  output # NoCall /\ input.kind # "object" =>
    /\ output.val.tag = "value"
    /\ output.val.val.content = input.response.text
    /\ TextLen(output.val.val.content) > 0
    /\ output.val.val.title = input.original.title \o EnhancedSuffix
    /\ output.val.val.excerpt = Substring0(input.response.text, 200)
    /\ TextLen(output.val.val.excerpt) <= 200
    /\ output.val.val.enhancementDetails = <<>>
DenyHosts == {"youtube.com", "facebook.com", "twitter.com", "linkedin.com",
              "beyondchats.com"}

\* the host is a denylisted site or one of its subdomains
SubdomainLabels == {"www.", "m.", "uk."}
HostDenied(link) ==
  /\ link.host # <<>>
  /\ link.host[Len(link.host)] \in DenyHosts
  /\ \A j \in 1..Len(link.host) - 1 : link.host[j] \in SubdomainLabels

HostAllowed(item) == ~HostDenied(item.link)

\* C17: whatever desiredCount >= 1 and whatever the backend answers, the
\* Retriever does not raise and returns at most 10 and at most
\* desiredCount results; it returns none when no item qualifies.
C17_ResultCap ==
  output # NoCall =>
    /\ ~output.val.threw
    /\ Len(output.val.val) <= 10
    /\ Len(output.val.val) <= input.numResults
    /\ ((\A j \in 1..Len(output.items) : ~HostAllowed(output.items[j]))
          => output.val.val = <<>>)
    /\ (~input.backend.ok => output.val.val = <<>>)

\* C18: the results are, in the backend's order, the first desiredCount of
\* the items whose host is not on the denylist: none on a denylisted host,
\* none of the others left out before the truncation.
C18_DenylistFilter ==
  output # NoCall /\ input.backend.ok =>
    LET allowed == Slice0(SelectSeq(output.items, HostAllowed),
                          input.numResults)
    IN output.val.val =
         [j \in 1..Len(allowed) |->
            [title |-> allowed[j].title, url |-> allowed[j].link]]
\* the References block at the end of an enriched document's body: the
\* last Len(citedReferences) + 2 pieces of it
BlockOf(doc) ==
  IF doc.citedReferences = <<>> THEN <<>>
  ELSE SubSeq(doc.content, Len(doc.content) - Len(doc.citedReferences) - 1,
              Len(doc.content))

EnrichedDocs == {j \in 1..Len(store) : store[j].isEnhanced}

Rank(s) ==
  CASE s = "SEARCH" -> 1 [] s = "EXTRACT" -> 2 [] s = "SYNTHESIZE" -> 3
    [] s = "ASSEMBLE" -> 4 [] s = "PUBLISH" -> 5

Running == {"SEARCH", "EXTRACT", "SYNTHESIZE", "ASSEMBLE", "PUBLISH"}

\* C20: the steps of a run are carried out one at a time in the order
\* SEARCH, EXTRACT (once per result), SYNTHESIZE, ASSEMBLE, PUBLISH; a run
\* under way can always take its next step (the backend's, while the
\* answer to the POST is awaited), and ends either DONE,
\* returning true after all the steps, or FAILED, returning false with the
\* failing step recorded and no step after it.
C20_StepOrder ==
  /\ \A i, j \in 1..Len(cur.steps) :
       i < j => \/ Rank(cur.steps[i]) < Rank(cur.steps[j])
                \/ cur.steps[i] = "EXTRACT" /\ cur.steps[j] = "EXTRACT"
  /\ (step \in Running =>
        /\ pc = "loop"
        /\ runlog[Len(runlog)].outcome = "-"
        /\ \A i \in 1..Len(cur.steps) :
             \/ Rank(cur.steps[i]) < Rank(step)
             \/ cur.steps[i] = "EXTRACT" /\ step = "EXTRACT"
        /\ ENABLED (DoSearch \/ DoExtract \/ DoSynthesize \/ DoAssemble
                    \/ DoPublish
                    \/ \E req \in Awaited :
                         BackendCheck(req) \/ BackendInsert(req)))
  /\ \A r \in 1..Len(runlog) :
       /\ runlog[r].outcome = "DONE" => runlog[r].failedAt = "-"
       /\ runlog[r].outcome = "FAILED" => runlog[r].failedAt \in Running
       /\ r < Len(runlog) => runlog[r].outcome \in {"DONE", "FAILED"}
  /\ (Len(runlog) > 0 /\ runlog[Len(runlog)].outcome = "DONE" =>
        /\ step \in {"DONE", "idle"} /\ returned
        /\ cur.steps = ExpectedSteps)
  /\ (Len(runlog) > 0 /\ runlog[Len(runlog)].outcome = "FAILED" =>
        /\ step \in {"FAILED", "idle"} /\ ~returned
        /\ cur.steps[Len(cur.steps)] = runlog[Len(runlog)].failedAt)
  /\ (step = "DONE" => runlog[Len(runlog)].outcome = "DONE")
  /\ (step = "FAILED" => runlog[Len(runlog)].outcome = "FAILED")

C20_Witness ==
  /\ step = "FAILED" /\ Len(runlog) = 2
  /\ runlog[1].outcome = "DONE"
  /\ runlog[2].failedAt = "SYNTHESIZE"
  /\ cur.steps = <<"SEARCH", "EXTRACT", "EXTRACT", "SYNTHESIZE">>
\* C21 (as stated): once the generative-text backend has failed for a
\* document, no later document of the backlog is processed.
C21_BatchAborts ==
  \A j \in 1..Len(runlog) : runlog[j].backendFailed => j = Len(runlog)

\* C21 (amended): when the generative-text backend fails for a document,
\* the Synthesizer rethrows, that document alone ends FAILED, and the
\* runner goes on: it pauses and starts the next document, and the batch
\* ends with every document of the backlog processed and exit status 0.
C21_OnlyItemFails ==
  \A j \in 1..Len(runlog) :
    runlog[j].backendFailed =>
      /\ runlog[j].llm = "throw" /\ runlog[j].outcome = "FAILED"
      /\ (j = Len(runlog) /\ pc = "loop" =>
            \/ step = "FAILED"
            \/ step = "idle" /\ idx = j + 1 /\ ENABLED Invoke)
      /\ (j = Len(runlog) /\ pc = "delay" =>
            idx < Len(articles) /\ ENABLED Delay)
      /\ (pc \in {"summary", "exit"} =>
            /\ Len(runlog) = Len(articles)
            /\ successCount =
                 Cardinality({r \in 1..Len(runlog) :
                                runlog[r].outcome = "DONE"}))
      /\ (pc = "exit" => exitCode = 0 /\ report.failed >= 1)

C21_Witness ==
  /\ pc = "summary" /\ Len(runlog) = 3
  /\ runlog[1].backendFailed /\ runlog[2].backendFailed
  /\ runlog[3].outcome = "DONE" /\ successCount = 1
\* C22: the Synthesizer is called exactly when synthesis is enabled and at
\* least one source was kept; when it is not called, or returns null, the
\* published document has the original's title followed by " (Enhanced)",
\* the original's body, and the original's excerpt or, without one, the
\* first 200 characters of the body.
C22_PassThrough ==
  /\ (step \in {"ASSEMBLE", "PUBLISH", "DONE"} =>
        (runlog[Len(runlog)].llm # "skipped"
           <=> cfg.enableLLM /\ Len(competitorContent) > 0))
  /\ (step = "DONE" /\ runlog[Len(runlog)].llm \in {"skipped", "null"} =>
        LET doc == Published IN
        /\ doc.title = article.title \o EnhancedSuffix
        /\ doc.content = article.content
        /\ doc.excerpt = IF article.excerpt # <<>> THEN article.excerpt
                         ELSE Substring0(article.content, 200))
\* C23: with the search phase disabled no document's run calls the
\* Retriever, the Extractor or the Synthesizer; the run has no sources and
\* publishes the pass-through with no citations and no References block.
C23_SearchDisabled ==
  ~cfg.enableGoogleSearch =>
    /\ cur.search \in {"-", "disabled"}
    /\ searchResults = <<>> /\ cur.scrapes = <<>> /\ cur.passed = <<>>
    /\ competitorContent = <<>> /\ citations = <<>>
    /\ \A j \in 1..Len(runlog) :
         /\ runlog[j].llm \in {"-", "skipped"}
         /\ ~runlog[j].backendFailed
         /\ runlog[j].failedAt \in {"-", "PUBLISH"}
    /\ \A j \in 1..Len(cur.steps) : cur.steps[j] # "EXTRACT"
    /\ (step = "DONE" =>
          /\ Published.citedReferences = <<>>
          /\ Published.title = article.title \o EnhancedSuffix
          /\ Published.content = article.content)

C23_Witness ==
  /\ ~cfg.enableGoogleSearch /\ cfg.enableLLM /\ isInitialized
  /\ step = "DONE" /\ Len(runlog) = 2
  /\ cur.steps = <<"SEARCH", "SYNTHESIZE", "ASSEMBLE", "PUBLISH">>
IsRefs(c) == c.k \in {"refs-open", "refs-li", "refs-close"}

\* the body without its last Len(citations) + 2 chunks
BeforeBlock(body) == SubSeq(body, 1, Len(body) - Len(citations) - 2)

\* what SYNTHESIZE produced is the original's body (pass-through) or text
\* of the model about this document
IsSynthesized(text) ==
  IF runlog[Len(runlog)].llm \in {"skipped", "null"}
  THEN text = article.content
  ELSE /\ text # <<>>
       /\ \A j \in 1..Len(text) :
            text[j].k \in {"llm-content", "prose"} /\ text[j].d = article.id

\* C24: once ASSEMBLE is done the body ends with a References block, one
\* entry per citation in citation order, exactly when there are citations;
\* what precedes the block is the content SYNTHESIZE produced, unaltered;
\* without citations the body is that content.  The published body is
\* this body.
C24_ReferencesBlock ==
  step \in {"PUBLISH", "DONE"} =>
    LET body == enhancedContent.content
        n == Len(citations)
    IN /\ citations = BuildCitations(competitorContent)
       /\ IF n = 0
          THEN IsSynthesized(body) /\ \A j \in 1..Len(body) : ~IsRefs(body[j])
          ELSE /\ Len(body) >= n + 2
               /\ IsSynthesized(BeforeBlock(body))
               /\ \A j \in 1..Len(BeforeBlock(body)) : ~IsRefs(body[j])
               /\ body[Len(body) - n - 1].k = "refs-open"
               /\ body[Len(body)].k = "refs-close"
               /\ \A j \in 1..n :
                    LET li == body[Len(body) - n - 1 + j] IN
                    /\ li.k = "refs-li"
                    /\ li.u = citations[j].url /\ li.t = citations[j].title
       /\ (step = "DONE" => Published.content = body)

C24_Witness ==
  /\ step = "DONE" /\ Len(citations) = 2
  /\ runlog[Len(runlog)].llm = "value"
  /\ Len(Published.content) = 5
  /\ Published.content[1].k = "llm-content"
Times(s) == Cardinality({j \in 1..Len(cur.steps) : cur.steps[j] = s})

\* C25: in one run the Retriever is called at most once, the Extractor
\* once per search result (all of them once the scraping loop is over),
\* the generative-text backend at most once and the store create at most
\* once, failed calls included.
C25_NoRetries ==
  /\ Times("SEARCH") <= 1 /\ Times("SYNTHESIZE") <= 1
  /\ Times("ASSEMBLE") <= 1 /\ Times("PUBLISH") <= 1
  /\ Times("EXTRACT") = Len(cur.scrapes)
  /\ Len(cur.scrapes) <= Len(searchResults)
  /\ (step = "EXTRACT" => Len(cur.scrapes) = k - 1)
  /\ (Times("SYNTHESIZE") = 1 => Len(cur.scrapes) = Len(searchResults))
  /\ (step \in {"DONE", "FAILED"} =>
        /\ Times("SEARCH") = 1 /\ Times("SYNTHESIZE") = 1
        /\ Times("PUBLISH") = IF runlog[Len(runlog)].failedAt = "SYNTHESIZE"
                              THEN 0 ELSE 1)

C25_Witness ==
  /\ step = "FAILED" /\ runlog[Len(runlog)].failedAt = "PUBLISH"
  /\ Len(searchResults) = 2 /\ Len(cur.scrapes) = 2
  /\ ~cur.scrapes[1].ok /\ cur.scrapes[2].ok
  /\ runlog[Len(runlog)].llm = "value"
\* the pauses made so far: the clock starts at 1 and only Delay moves it
Delays == now - 1

\* C26: the runner pauses once after every document but the last, done or
\* failed, so n - 1 times for n documents; a document is started only when
\* all the documents before it have ended and been followed by a pause.
C26_InterItemDelay ==
  BatchStarted =>
    /\ (pc \in {"loop", "delay"} => Delays = idx - 1)
    /\ (pc = "delay" =>
          /\ idx < Len(articles) /\ step = "idle" /\ Len(runlog) = idx
          /\ runlog[idx].outcome \in {"DONE", "FAILED"})
    /\ (pc = "loop" /\ step # "idle" =>
          /\ Len(runlog) = idx /\ Delays = Len(runlog) - 1
          /\ \A j \in 1..idx - 1 : runlog[j].outcome \in {"DONE", "FAILED"})
    /\ (pc \in {"summary", "exit"} =>
          /\ Delays = Len(articles) - 1
          /\ runlog[Len(articles)].outcome \in {"DONE", "FAILED"})

C26_Witness ==
  /\ pc = "summary" /\ Len(articles) = 3 /\ Delays = 2
  /\ runlog[1].outcome = "FAILED" /\ runlog[2].outcome = "DONE"
  /\ runlog[3].outcome = "FAILED"
\* the first candidate of more than 500 characters, 0 when there is none
RECURSIVE FirstOver(_, _)
FirstOver(cands, j) ==
  IF j > Len(cands) THEN 0
  ELSE IF cands[j].n > 500 THEN j ELSE FirstOver(cands, j + 1)

\* C27: the text taken from a fetched page is that of the first matching
\* container whose text has more than 500 characters; when no container
\* has more than 500 (lengths 0 to 500), it is the joined paragraphs.
C27_SelectorOrFallback ==
  output # NoCall /\ input.page.ok =>
    LET first == FirstOver(input.page.cands, 1)
        len == IF first # 0 THEN input.page.cands[first].clean
               ELSE JoinParagraphs(input.page.paras).clean
        text == output.val.val
    IN IF len = 0 THEN text = <<>>
       ELSE /\ text # <<>>
            /\ text[1].k = IF first # 0 THEN "container" ELSE "paragraphs"
            /\ text[1].n = IF len > 5000 THEN 5000 ELSE len
\* the documents the store held when the process started: the first ones
Seeded == Len(store) - Cardinality({j \in 1..Len(runlog) : runlog[j].stored})

\* C28: a batch run changes the store only by adding documents: the
\* documents it held at the start are still there, unchanged, followed by
\* one enriched document per publish the store accepted; the backlog held in
\* memory stays what was fetched, each original's fields included.
C28_NoMutation ==
  /\ Seeded \in 0..MaxDocs
  /\ SubSeq(store, 1, Seeded) = SeededStore(Seeded)
  /\ \A j \in Seeded + 1..Len(store) :
       store[j].isEnhanced /\ store[j].id = j
  /\ (fetched = "ok" =>
        /\ articles = Reverse(SeededStore(Seeded))
        /\ (pc \in {"loop", "delay"} => article = Original(article.id)))
  /\ (fetched # "ok" => articles = <<>>)

C28_Witness ==
  /\ pc = "exit" /\ Seeded = 2 /\ Len(store) = 3
  /\ runlog[1].outcome = "FAILED" /\ runlog[2].outcome = "DONE"
  /\ store[3].originalArticleId = 1
  /\ articles = <<Original(2), Original(1)>>
\* What one run gives for document a under configuration c, from the
\* answers g it received and the page texts it scraped, worked out without
\* any state of the batch.
AloneResults(c, g) ==
  IF c.enableGoogleSearch THEN search(SearchCount, c.searchCreds, g.resp).val
  ELSE <<>>

RECURSIVE AloneSources(_, _, _)
AloneSources(results, scrapes, n) ==
  IF n = 0 THEN <<>>
  ELSE IF TextLen(scrapes[n].text) > 200
       THEN Append(AloneSources(results, scrapes, n - 1),
                   [title |-> results[n].title, content |-> scrapes[n].text,
                    url |-> results[n].url])
       ELSE AloneSources(results, scrapes, n - 1)

Alone(a, c, init, g, scrapes) ==
  LET results == AloneResults(c, g)
      sources == AloneSources(results, scrapes, Len(results))
      called == c.enableLLM /\ Len(sources) > 0
      llm == llmEnhanceArticle(init, [title |-> a.title,
                                      content |-> a.content],
                               sources, g.backend)
      synth == IF called /\ llm.tag = "value" THEN llm.val
               ELSE PassThrough(a)
      cits == [j \in 1..Len(sources) |->
                 [title |-> sources[j].title, url |-> sources[j].url]]
  IN [outcome |-> IF called /\ llm.tag = "throw" THEN "FAILED"
                  ELSE IF g.status = 201 THEN "DONE" ELSE "FAILED",
      title |-> synth.title,
      content |-> IF Len(cits) > 0 THEN synth.content \o citationsHtml(cits)
                  ELSE synth.content,
      excerpt |-> synth.excerpt,
      citedReferences |-> cits]

\* C29: the outcome of a document's run and the title, body, excerpt and
\* citations it publishes are those worked out from the document, the
\* configuration and the answers received during this run, whatever the
\* other documents of the backlog, their runs and their outcomes were.
C29_Isolation ==
  step \in {"DONE", "FAILED"} =>
    LET alone == Alone(article, cfg, isInitialized, cur.got, cur.scrapes)
        doc == Published
    IN /\ runlog[Len(runlog)].outcome = alone.outcome
       /\ returned = (alone.outcome = "DONE")
       /\ (step = "DONE" =>
             /\ doc.originalArticleId = article.id
             /\ doc.title = alone.title
             /\ doc.content = alone.content
             /\ doc.excerpt = alone.excerpt
             /\ doc.citedReferences = alone.citedReferences)

\* the third document is published with one source after a run that kept
\* two sources and failed, and a run that kept none
C29_Witness ==
  /\ step = "DONE" /\ Len(runlog) = 3
  /\ runlog[1].failedAt = "SYNTHESIZE" /\ runlog[2].llm = "skipped"
  /\ runlog[2].outcome = "DONE"
  /\ Len(Published.citedReferences) = 1
  /\ runlog[3].llm = "value"
\* C30: once every fetch of the article detail page has settled, the page
\* is not loading, and it shows what the fetch for the route id it now has
\* gave: that article and no error when this fetch succeeded, its error
\* when it failed, and the original it loaded for comparison.
C30_LatestWins ==
  (view.id # Null /\ view.fetches = {}) =>
    /\ ~view.loading
    /\ (view.latest = "ok" =>
          /\ view.article = store[view.id]
          /\ view.error = "")
    /\ (view.latest = "error" => view.error # "")
    /\ (view.latestOriginal = "ok" =>
          view.originalArticle = store[store[view.id].originalArticleId])

====
